---- MODULE Spec2Model ----
(***************************************************************************)
(* Model of the Trivy scanner Lambda handler                               *)
(* (src/trivy_lambda_setup/lambda_handler.py).                             *)
(*                                                                         *)
(* One invocation of handler(event, context) is a sequential process whose *)
(* position is pc.  Python values are tagged records:                      *)
(*   None  [t |-> "null"]          str   [t |-> "str", s |-> "..."]        *)
(*   int   [t |-> "num", n |-> 3]  bool  [t |-> "bool", b |-> TRUE]        *)
(*   list  [t |-> "list", l |-> <<...>>]                                   *)
(*   dict  [t |-> "obj", o |-> f]  with f a function from keys to values   *)
(* A str that is the JSON encoding of a value v is                         *)
(*   [t |-> "str", enc |-> v]; json_loads decodes it and fails on any      *)
(* other str.  A str that gets sliced is kept as a sequence of characters  *)
(* in its s field.                                                         *)
(***************************************************************************)
EXTENDS Integers, Sequences, FiniteSets, TLC

VARIABLES
    pc,              \* position of the invocation inside handler
    event,           \* the event argument
    body,            \* local: parsed request body
    image,           \* local
    severity,        \* local
    ignore_unfixed,  \* local
    cmd,             \* local: scanner command line
    result,          \* local: CompletedProcess of the scan
    trivy_output,    \* local: parsed scanner output
    vulnerabilities, \* local: normalized findings
    summary,         \* local
    trivy_version,   \* value returned by get_trivy_version()
    exc,             \* exception in flight / last raised
    response,        \* value returned to the caller
    scans,           \* number of times the scan subprocess was started
    versionQueries,  \* number of times the version query was started
    arg,             \* argument of a direct call of extract_cvss_score
    ret,             \* value that call returned
    runs,            \* the subprocess.run calls made so far, with what each did
    inv,             \* two invocations of handler: position, request, cmd, child
    forked,          \* number of child processes started by the two invocations
    session_state,   \* st.session_state of the dashboard session
    aws,             \* the boto3 clients created and AWS API calls made so far
    fn,              \* the function of finops_live_data.py being called
    at,              \* the position inside that function
    local,           \* the local variables of that function
    outcome          \* what the call returned or raised

\* the variables of one invocation of handler
handlerVars == <<pc, event, body, image, severity, ignore_unfixed, cmd, result,
                 trivy_output, vulnerabilities, summary, trivy_version, exc,
                 response, scans, versionQueries, arg, ret, runs>>

\* the variables of two invocations running side by side
pairVars == <<inv, forked>>

\* the variables of a call into finops_live_data.py
finopsVars == <<session_state, aws, fn, at, local, outcome>>

vars == <<handlerVars, pairVars, finopsVars>>

-----------------------------------------------------------------------------
(* Bounds of the model *)

MaxFindings == 2   \* findings in one scanner output, over all targets
MaxTargets == 2    \* scan targets in one scanner output

-----------------------------------------------------------------------------
(* Python values *)

Null == [t |-> "null"]
Str(x) == [t |-> "str", s |-> x]
Num(x) == [t |-> "num", n |-> x]
Bool(x) == [t |-> "bool", b |-> x]
List(x) == [t |-> "list", l |-> x]
Obj(x) == [t |-> "obj", o |-> x]
JsonText(v) == [t |-> "str", enc |-> v]
Text(x) == [t |-> "str", c |-> x]         \* a str kept as its characters
FStr(x) == [t |-> "str", parts |-> x]     \* an f-string: its segments in order

EmptyDict == << >>
Unset == [t |-> "unset"]

IsStr(v) == v.t = "str"
IsObj(v) == v.t = "obj"

\* bool(v)
Truthy(v) ==
    CASE v.t = "null" -> FALSE
      [] v.t = "str" -> IF "s" \in DOMAIN v THEN v.s # ""
                        ELSE IF "c" \in DOMAIN v THEN v.c # << >>
                        ELSE IF "parts" \in DOMAIN v
                             THEN \E i \in 1..Len(v.parts) : v.parts[i] # ""
                        ELSE TRUE
      [] v.t = "num" -> v.n # 0
      [] v.t = "bool" -> v.b
      [] v.t = "list" -> Len(v.l) > 0
      [] v.t = "obj" -> DOMAIN v.o # {}

\* d.get(k, default) on a dict d
Get(d, k, default) == IF k \in DOMAIN d THEN d[k] ELSE default

\* the dict d with d[k] = v
With(d, k, v) == [x \in (DOMAIN d) \cup {k} |-> IF x = k THEN v ELSE d[x]]

\* json.loads(text): the decoded value, or JSONDecodeError
json_loads(text) ==
    IF "enc" \in DOMAIN text
    THEN [ok |-> TRUE, val |-> text.enc]
    ELSE [ok |-> FALSE, exc |-> "JSONDecodeError"]

\* json.dumps(v) for a value made of JSON types
json_dumps(v) == JsonText(v)

-----------------------------------------------------------------------------
(* Inputs: the events handler is invoked with *)

DefaultImage == Str("nginx:latest")
\* a default filter that names two labels only
DefaultSeverityNarrow == FStr(<<"CRITICAL", ",", "HIGH">>)

\* 'CRITICAL,HIGH,MEDIUM,LOW', kept as its labels and separators
DefaultSeverity == FStr(<<"CRITICAL", ",", "HIGH", ",", "MEDIUM", ",", "LOW">>)
TimeoutImage == Str("unknown")

\* request dicts
ReqEmpty == EmptyDict
ReqImage == [image |-> Str("alpine:3.19")]
ReqEmptyImage == [image |-> Str("")]
ReqNullImage == [image |-> Null]
ReqNumImage == [image |-> Num(7)]
ReqFull == [image |-> Str("alpine:3.19"), severity |-> Str("CRITICAL"),
            ignore_unfixed |-> Bool(TRUE)]
ReqNullSeverity == [severity |-> Null]

Requests == {ReqEmpty, ReqImage, ReqEmptyImage, ReqNullImage, ReqNumImage,
             ReqFull, ReqNullSeverity}

\* values of event['body']
Bodies ==
    {Null, Obj(ReqEmpty), Obj(ReqImage)}
    \cup {JsonText(Obj(r)) : r \in Requests}
    \cup {Str(""), Str("{not json"),
          JsonText(List(<< >>)), JsonText(Null), JsonText(Num(7))}

Events == {EmptyDict} \cup {[body |-> b] : b \in Bodies}

-----------------------------------------------------------------------------
(* Normalization of the scanner output (pure functions) *)

DescLimit == 500
RefLimit == 3
\* the preference list with the first two sources exchanged
CvssSourcesReordered == <<"redhat", "nvd", "ghsa">>

CvssSources == <<"nvd", "redhat", "ghsa">>

Min(a, b) == IF a < b THEN a ELSE b

\* a slice that keeps one element too many
PrefixOffByOne(seq, n) == SubSeq(seq, 1, Min(Len(seq), n + 1))

\* seq[:n]
Prefix(seq, n) == SubSeq(seq, 1, Min(Len(seq), n))

Ok(v) == [ok |-> TRUE, val |-> v]
Raise(e) == [ok |-> FALSE, exc |-> e]

\* the loop with the older scoring version preferred inside a source
RECURSIVE CvssFromV2First(_, _)
CvssFromV2First(cvss, i) ==
    IF i > Len(CvssSources) THEN Ok(Num(0))
    ELSE IF CvssSources[i] \in DOMAIN cvss
         THEN LET entry == cvss[CvssSources[i]]
              IN  IF ~IsObj(entry) THEN Raise("AttributeError")
                  ELSE Ok(Get(entry.o, "V2Score",
                              Get(entry.o, "V3Score", Num(0))))
         ELSE CvssFromV2First(cvss, i + 1)

\* the loop of extract_cvss_score from source number i on
RECURSIVE CvssFrom(_, _)
CvssFrom(cvss, i) ==
    IF i > Len(CvssSources) THEN Ok(Num(0))
    ELSE IF CvssSources[i] \in DOMAIN cvss
         THEN LET entry == cvss[CvssSources[i]]
              IN  IF ~IsObj(entry) THEN Raise("AttributeError")
                  ELSE Ok(Get(entry.o, "V3Score",
                              Get(entry.o, "V2Score", Num(0))))
         ELSE CvssFrom(cvss, i + 1)

extract_cvss_score(vuln) ==
    LET cvss == Get(vuln, "CVSS", Obj(EmptyDict))
    IN  IF ~IsObj(cvss) THEN Raise("TypeError")
        ELSE CvssFrom(cvss.o, 1)

\* a normalization that rewrites a label it does not know to UNKNOWN
NormalizeVulnCoerce(vuln, target) ==
    LET score == extract_cvss_score(vuln)
        desc == Get(vuln, "Description", Text(<< >>))
        refs == Get(vuln, "References", List(<< >>))
        sev == Get(vuln, "Severity", Str("UNKNOWN"))
    IN  IF ~score.ok THEN score
        ELSE IF ~(IsStr(desc) /\ "c" \in DOMAIN desc) THEN Raise("TypeError")
        ELSE IF refs.t # "list" THEN Raise("TypeError")
        ELSE Ok([cve_id |-> Get(vuln, "VulnerabilityID", Str("N/A")),
                 package |-> Get(vuln, "PkgName", Str("Unknown")),
                 installed_version |-> Get(vuln, "InstalledVersion", Str("Unknown")),
                 fixed_version |-> Get(vuln, "FixedVersion", Str("No fix available")),
                 severity |-> IF sev \in {Str("CRITICAL"), Str("HIGH"),
                                          Str("MEDIUM"), Str("LOW")}
                              THEN sev ELSE Str("UNKNOWN"),
                 cvss_score |-> score.val,
                 description |-> Text(Prefix(desc.c, DescLimit)),
                 layer |-> Get(target, "Target", Str("Unknown")),
                 references |-> List(Prefix(refs.l, RefLimit))])

\* a normalization that keeps the last references instead of the first
NormalizeVulnLastRefs(vuln, target) ==
    LET score == extract_cvss_score(vuln)
        desc == Get(vuln, "Description", Text(<< >>))
        refs == Get(vuln, "References", List(<< >>))
    IN  IF ~score.ok THEN score
        ELSE IF ~(IsStr(desc) /\ "c" \in DOMAIN desc) THEN Raise("TypeError")
        ELSE IF refs.t # "list" THEN Raise("TypeError")
        ELSE Ok([cve_id |-> Get(vuln, "VulnerabilityID", Str("N/A")),
                 package |-> Get(vuln, "PkgName", Str("Unknown")),
                 installed_version |-> Get(vuln, "InstalledVersion", Str("Unknown")),
                 fixed_version |-> Get(vuln, "FixedVersion", Str("No fix available")),
                 severity |-> Get(vuln, "Severity", Str("UNKNOWN")),
                 cvss_score |-> score.val,
                 description |-> Text(Prefix(desc.c, DescLimit)),
                 layer |-> Get(target, "Target", Str("Unknown")),
                 references |->
                     List(SubSeq(refs.l,
                                 Len(refs.l) - Min(Len(refs.l), RefLimit) + 1,
                                 Len(refs.l)))])

\* the dict appended for one raw finding of one target (lines 79-89)
NormalizeVuln(vuln, target) ==
    LET score == extract_cvss_score(vuln)
        desc == Get(vuln, "Description", Text(<< >>))
        refs == Get(vuln, "References", List(<< >>))
    IN  IF ~score.ok THEN score
        ELSE IF ~(IsStr(desc) /\ "c" \in DOMAIN desc) THEN Raise("TypeError")
        ELSE IF refs.t # "list" THEN Raise("TypeError")
        ELSE Ok([cve_id |-> Get(vuln, "VulnerabilityID", Str("N/A")),
                 package |-> Get(vuln, "PkgName", Str("Unknown")),
                 installed_version |-> Get(vuln, "InstalledVersion", Str("Unknown")),
                 fixed_version |-> Get(vuln, "FixedVersion", Str("No fix available")),
                 severity |-> Get(vuln, "Severity", Str("UNKNOWN")),
                 cvss_score |-> score.val,
                 description |-> Text(Prefix(desc.c, DescLimit)),
                 layer |-> Get(target, "Target", Str("Unknown")),
                 references |-> List(Prefix(refs.l, RefLimit))])

\* an inner loop that puts each finding in front of the list
RECURSIVE NormalizeTargetPrepend(_, _, _, _)
NormalizeTargetPrepend(target, vulns, j, acc) ==
    IF j > Len(vulns) THEN Ok(acc)
    ELSE IF ~IsObj(vulns[j]) THEN Raise("AttributeError")
    ELSE LET one == NormalizeVuln(vulns[j].o, target)
         IN  IF ~one.ok THEN one
             ELSE NormalizeTargetPrepend(target, vulns, j + 1, <<one.val>> \o acc)

\* the inner loop over the findings of one target, from finding j on
RECURSIVE NormalizeTarget(_, _, _, _)
NormalizeTarget(target, vulns, j, acc) ==
    IF j > Len(vulns) THEN Ok(acc)
    ELSE IF ~IsObj(vulns[j]) THEN Raise("AttributeError")
    ELSE LET one == NormalizeVuln(vulns[j].o, target)
         IN  IF ~one.ok THEN one
             ELSE NormalizeTarget(target, vulns, j + 1, Append(acc, one.val))

\* the outer loop over the targets, from target i on
RECURSIVE NormalizeResults(_, _, _)
NormalizeResults(results, i, acc) ==
    IF i > Len(results) THEN Ok(acc)
    ELSE IF ~IsObj(results[i]) THEN Raise("AttributeError")
    ELSE LET target == results[i].o
             vulns == Get(target, "Vulnerabilities", List(<< >>))
         IN  IF vulns.t # "list" THEN Raise("TypeError")
             ELSE LET sub == NormalizeTarget(target, vulns.l, 1, acc)
                  IN  IF ~sub.ok THEN sub
                      ELSE NormalizeResults(results, i + 1, sub.val)

\* lines 76-89 on the parsed output
Transform(output) ==
    IF ~IsObj(output) THEN Raise("AttributeError")
    ELSE LET results == Get(output.o, "Results", List(<< >>))
         IN  IF results.t # "list" THEN Raise("TypeError")
             ELSE NormalizeResults(results.l, 1, << >>)

\* a count that also puts the label UNKNOWN into the bucket 'low'
RECURSIVE CountSeverityLoose(_, _)
CountSeverityLoose(vulns, label) ==
    IF vulns = << >> THEN 0
    ELSE (IF \/ Head(vulns).severity = Str(label)
             \/ (label = "LOW" /\ Head(vulns).severity = Str("UNKNOWN"))
          THEN 1 ELSE 0)
         + CountSeverityLoose(Tail(vulns), label)

\* sum(1 for v in vulns if v['severity'] == label)
RECURSIVE CountSeverity(_, _)
CountSeverity(vulns, label) ==
    IF vulns = << >> THEN 0
    ELSE (IF Head(vulns).severity = Str(label) THEN 1 ELSE 0)
         + CountSeverity(Tail(vulns), label)

\* a summary whose total adds up the four buckets
SummarizeTotalOfBuckets(vulns) ==
    [total |-> CountSeverity(vulns, "CRITICAL") + CountSeverity(vulns, "HIGH")
               + CountSeverity(vulns, "MEDIUM") + CountSeverity(vulns, "LOW"),
     critical |-> CountSeverity(vulns, "CRITICAL"),
     high |-> CountSeverity(vulns, "HIGH"),
     medium |-> CountSeverity(vulns, "MEDIUM"),
     low |-> CountSeverity(vulns, "LOW")]

\* lines 92-98
Summarize(vulns) ==
    [total |-> Len(vulns),
     critical |-> CountSeverity(vulns, "CRITICAL"),
     high |-> CountSeverity(vulns, "HIGH"),
     medium |-> CountSeverity(vulns, "MEDIUM"),
     low |-> CountSeverity(vulns, "LOW")]

-----------------------------------------------------------------------------
(* Inputs: what the scanner binary can do *)

Chars(n) == [i \in 1..n |-> "x"]

VFull ==
    [VulnerabilityID |-> Str("CVE-2024-0001"), PkgName |-> Str("openssl"),
     InstalledVersion |-> Str("1.1.1"), FixedVersion |-> Str("1.1.2"),
     Severity |-> Str("CRITICAL"),
     CVSS |-> Obj([nvd |-> Obj([V3Score |-> Num(9), V2Score |-> Num(7)])]),
     Description |-> Text(Chars(DescLimit + 1)),
     References |-> List(<<Str("u1"), Str("u2"), Str("u3"), Str("u4")>>)]
VBare == EmptyDict
VNoFix ==
    [VulnerabilityID |-> Str("CVE-2024-0002"), PkgName |-> Str("zlib"),
     InstalledVersion |-> Str("1.2"), Severity |-> Str("HIGH"),
     CVSS |-> Obj([redhat |-> Obj([V2Score |-> Num(5)])]),
     Description |-> Text(Chars(2)),
     References |-> List(<<Str("u5"), Str("u6")>>)]
VNullFix ==
    [VulnerabilityID |-> Null, PkgName |-> Null, InstalledVersion |-> Null,
     FixedVersion |-> Null, Severity |-> Str("MEDIUM"),
     Description |-> Text(Chars(DescLimit))]
VLow ==
    [VulnerabilityID |-> Str("CVE-2024-0003"), FixedVersion |-> Str("2.0"),
     Severity |-> Str("LOW"), CVSS |-> Obj(EmptyDict)]
VOdd ==
    [VulnerabilityID |-> Str("CVE-2024-0004"), Severity |-> Str("NEGLIGIBLE")]
VNullDesc ==
    [VulnerabilityID |-> Str("CVE-2024-0005"), Severity |-> Str("HIGH"),
     Description |-> Null]

RawVulns == {VFull, VBare, VNoFix, VNullFix, VLow, VOdd, VNullDesc}

LayerNames == <<"debian 12.5", "app/package-lock.json", "usr/local/bin/tool",
                "opt/app.jar">>

\* the sequences of at most n raw findings
VulnSeqs(n) == UNION {[1..k -> {Obj(v) : v \in RawVulns}] : k \in 0..n}

\* one entry of Results: every other target carries no 'Target' key, and a
\* target without findings carries no 'Vulnerabilities' key
MkTarget(i, vs) ==
    LET named == IF i % 2 = 1 THEN [Target |-> Str(LayerNames[i])] ELSE EmptyDict
    IN  Obj(IF vs = << >> THEN named ELSE With(named, "Vulnerabilities", List(vs)))

\* the lists of m targets that hold at most n findings together
RECURSIVE TargetLists(_, _)
TargetLists(m, n) ==
    IF m = 0 THEN {<< >>}
    ELSE UNION {{Append(ts, MkTarget(m, vs)) : ts \in TargetLists(m - 1, n - Len(vs))}
                : vs \in VulnSeqs(n)}

ScannerDocs ==
    {Obj([SchemaVersion |-> Num(2), Results |-> List(ts)])
        : ts \in UNION {TargetLists(m, MaxFindings) : m \in 0..MaxTargets}}

NoResultsDoc == Obj([SchemaVersion |-> Num(2)])

\* a few outputs for the flow of control: empty, not JSON, JSON of another
\* shape, and scanner documents with zero, one and two findings
FlowStdouts ==
    {Str(""), Str("FATAL"),
     JsonText(List(<< >>)), JsonText(Obj([Results |-> Null])),
     JsonText(NoResultsDoc),
     JsonText(Obj([Results |-> List(<<MkTarget(1, <<Obj(VFull)>>)>>)])),
     JsonText(Obj([Results |-> List(<<MkTarget(1, <<Obj(VNoFix), Obj(VNullDesc)>>)>>)])),
     JsonText(Obj([Results |-> List(<<MkTarget(1, << >>),
                                      MkTarget(2, <<Obj(VBare), Obj(VOdd)>>)>>)]))}

Stderrs == {Str(""), Str("image not found")}

Completed(rc, out, err) ==
    [kind |-> "completed",
     result |-> [returncode |-> rc, stdout |-> out, stderr |-> err]]

FlowOutcomes ==
    {[kind |-> "timeout"], [kind |-> "oserror"]}
    \cup {Completed(rc, out, err) : rc \in {0, 1}, out \in FlowStdouts, err \in Stderrs}

FindingsOutcomes ==
    {Completed(0, JsonText(d), Str("")) : d \in ScannerDocs}
    \cup {Completed(1, JsonText(d), Str("image not found")) : d \in ScannerDocs}

\* what `trivy --version` can do
VersionStdouts ==
    {<< >>, <<"v", "1">>, <<"v", "1", "\n", "d", "b", "\n">>,
     <<" ", "\n", "v", "1", "\n">>, <<" ", "\n">>}

VersionOutcomes ==
    {[kind |-> "timeout"], [kind |-> "oserror"]}
    \cup {[kind |-> "completed", returncode |-> rc, stdout |-> Text(out)]
            : rc \in {0, 1}, out \in VersionStdouts}

-----------------------------------------------------------------------------
(* handler *)

Headers ==
    ("Content-Type" :> "application/json")
    @@ ("Access-Control-Allow-Origin" :> "*")

\* an envelope without the cross-origin header
EnvelopeNoCors(status, dict) ==
    [statusCode |-> status,
     headers |-> ("Content-Type" :> "application/json"),
     body |-> json_dumps(Obj(dict))]

Envelope(status, dict) ==
    [statusCode |-> status, headers |-> Headers, body |-> json_dumps(Obj(dict))]

\* the exception classes the pipeline can raise; all derive from Exception
Exceptions == {"JSONDecodeError", "AttributeError", "TypeError", "OSError",
               "TimeoutExpired"}

\* str(e)
ExcText(e) ==
    CASE e = "JSONDecodeError" -> "Expecting value: line 1 column 1 (char 0)"
      [] e = "AttributeError" -> "object has no attribute 'get'"
      [] e = "TypeError" -> "unsupported type"
      [] e = "OSError" -> "No such file or directory: '/usr/local/bin/trivy'"
      [] e = "TimeoutExpired" -> "timed out after 280 seconds"

\* handler without its `except Exception` clause
CatchTimeoutOnly(e) ==
    IF e = "TimeoutExpired" THEN "except_timeout" ELSE "raised"

\* the except clause of handler that receives e (lines 119 and 131)
Catch(e) ==
    IF e = "TimeoutExpired" THEN "except_timeout"
    ELSE IF e \in Exceptions THEN "except_exception"
    ELSE "raised"

Throw(e) == exc' = e /\ pc' = Catch(e)

\* lines 27-30
ParseBody ==
    /\ pc = "start"
    /\ LET b == Get(event, "body", Null)
       IN  IF IsStr(b)
           THEN LET r == json_loads(b)
                IN  IF r.ok
                    THEN body' = r.val /\ pc' = "parsed" /\ exc' = exc
                    ELSE Throw(r.exc) /\ body' = body
           ELSE /\ body' = (LET d == Get(event, "body", Obj(EmptyDict))
                            IN  IF Truthy(d) THEN d ELSE Obj(EmptyDict))
                /\ pc' = "parsed"
                /\ exc' = exc
    /\ UNCHANGED <<event, image, severity, ignore_unfixed, cmd, result,
                   trivy_output, vulnerabilities, summary, trivy_version,
                   response, scans, versionQueries, arg, ret, runs,
                   pairVars, finopsVars>>

\* lines 37-49
BuildCmd(img, sev, ign) ==
    <<Str("/usr/local/bin/trivy"), Str("image"), Str("--format"), Str("json"),
      Str("--quiet"), Str("--severity"), sev, Str("--cache-dir"),
      Str("/tmp/trivy-cache")>>
    \o (IF Truthy(ign) THEN <<Str("--ignore-unfixed")>> ELSE << >>)
    \o <<img>>

\* lines 32-49
ReadRequest ==
    /\ pc = "parsed"
    /\ IF ~IsObj(body)
       THEN /\ Throw("AttributeError")
            /\ UNCHANGED <<image, severity, ignore_unfixed, cmd,
                   pairVars, finopsVars>>
       ELSE /\ image' = Get(body.o, "image", DefaultImage)
            /\ severity' = Get(body.o, "severity", DefaultSeverity)
            /\ ignore_unfixed' = Get(body.o, "ignore_unfixed", Bool(FALSE))
            /\ cmd' = BuildCmd(image', severity', ignore_unfixed')
            /\ pc' = "built"
            /\ exc' = exc
    /\ UNCHANGED <<event, body, result, trivy_output, vulnerabilities, summary,
                   trivy_version, response, scans, versionQueries, arg, ret, runs,
                   pairVars, finopsVars>>

\* lines 52-57: subprocess.run(cmd, capture_output=True, text=True, timeout=280)
RunScan(outcomes) ==
    /\ pc = "built"
    /\ scans' = scans + 1
    /\ IF \E i \in 1..Len(cmd) : ~IsStr(cmd[i])
       THEN /\ Throw("TypeError") /\ result' = result
            /\ runs' = Append(runs, [what |-> "scan", kind |-> "badargs"])
       ELSE \E out \in outcomes :
              /\ runs' = Append(runs, [what |-> "scan", kind |-> out.kind])
              /\ CASE out.kind = "timeout" -> Throw("TimeoutExpired") /\ result' = result
                   [] out.kind = "oserror" -> Throw("OSError") /\ result' = result
                   [] out.kind = "completed" ->
                        result' = out.result /\ pc' = "scanned" /\ exc' = exc
    /\ UNCHANGED <<event, body, image, severity, ignore_unfixed, cmd,
                   trivy_output, vulnerabilities, summary, trivy_version,
                   response, versionQueries, arg, ret,
                   pairVars, finopsVars>>

\* the check of line 59 without `and not result.stdout`
CheckResultAnyNonZero ==
    /\ pc = "scanned"
    /\ IF result.returncode # 0
       THEN /\ response' = Envelope(500,
                   [error |-> FStr(<<"Trivy scan failed: ", result.stderr.s>>),
                    image |-> image])
            /\ pc' = "done"
       ELSE /\ pc' = "checked"
            /\ response' = response
    /\ UNCHANGED <<event, body, image, severity, ignore_unfixed, cmd, result,
                   trivy_output, vulnerabilities, summary, trivy_version, exc,
                   scans, versionQueries, arg, ret, runs,
                   pairVars, finopsVars>>

\* the error of line 67 without the captured stderr
CheckResultDropsStderr ==
    /\ pc = "scanned"
    /\ IF result.returncode # 0 /\ ~Truthy(result.stdout)
       THEN /\ response' = Envelope(500,
                   [error |-> FStr(<<"Trivy scan failed: ">>),
                    image |-> image])
            /\ pc' = "done"
       ELSE /\ pc' = "checked"
            /\ response' = response
    /\ UNCHANGED <<event, body, image, severity, ignore_unfixed, cmd, result,
                   trivy_output, vulnerabilities, summary, trivy_version, exc,
                   scans, versionQueries, arg, ret, runs,
                   pairVars, finopsVars>>

\* lines 59-70
CheckResult ==
    /\ pc = "scanned"
    /\ IF result.returncode # 0 /\ ~Truthy(result.stdout)
       THEN /\ response' = Envelope(500,
                   [error |-> FStr(<<"Trivy scan failed: ", result.stderr.s>>),
                    image |-> image])
            /\ pc' = "done"
       ELSE /\ pc' = "checked"
            /\ response' = response
    /\ UNCHANGED <<event, body, image, severity, ignore_unfixed, cmd, result,
                   trivy_output, vulnerabilities, summary, trivy_version, exc,
                   scans, versionQueries, arg, ret, runs,
                   pairVars, finopsVars>>

\* line 73 without the guard `if result.stdout`
ParseOutputAlwaysLoads ==
    /\ pc = "checked"
    /\ LET r == json_loads(result.stdout)
       IN  IF r.ok
           THEN trivy_output' = r.val /\ pc' = "loaded" /\ exc' = exc
           ELSE Throw(r.exc) /\ trivy_output' = trivy_output
    /\ UNCHANGED <<event, body, image, severity, ignore_unfixed, cmd, result,
                   vulnerabilities, summary, trivy_version, response, scans,
                   versionQueries, arg, ret, runs,
                   pairVars, finopsVars>>

\* line 73
ParseOutput ==
    /\ pc = "checked"
    /\ IF Truthy(result.stdout)
       THEN LET r == json_loads(result.stdout)
            IN  IF r.ok
                THEN trivy_output' = r.val /\ pc' = "loaded" /\ exc' = exc
                ELSE Throw(r.exc) /\ trivy_output' = trivy_output
       ELSE trivy_output' = Obj(EmptyDict) /\ pc' = "loaded" /\ exc' = exc
    /\ UNCHANGED <<event, body, image, severity, ignore_unfixed, cmd, result,
                   vulnerabilities, summary, trivy_version, response, scans,
                   versionQueries, arg, ret, runs,
                   pairVars, finopsVars>>

\* lines 76-89
TransformOutput ==
    /\ pc = "loaded"
    /\ LET r == Transform(trivy_output)
       IN  IF r.ok
           THEN vulnerabilities' = r.val /\ pc' = "transformed" /\ exc' = exc
           ELSE Throw(r.exc) /\ vulnerabilities' = vulnerabilities
    /\ UNCHANGED <<event, body, image, severity, ignore_unfixed, cmd, result,
                   trivy_output, summary, trivy_version, response, scans,
                   versionQueries, arg, ret, runs,
                   pairVars, finopsVars>>

\* lines 92-98
ComputeSummary ==
    /\ pc = "transformed"
    /\ summary' = Summarize(vulnerabilities)
    /\ pc' = "summarized"
    /\ UNCHANGED <<event, body, image, severity, ignore_unfixed, cmd, result,
                   trivy_output, vulnerabilities, trivy_version, exc, response,
                   scans, versionQueries, arg, ret, runs,
                   pairVars, finopsVars>>

-----------------------------------------------------------------------------
(* get_trivy_version *)

Whitespace == {" ", "\n"}

RECURSIVE LStrip(_)
LStrip(cs) ==
    IF cs # << >> /\ Head(cs) \in Whitespace THEN LStrip(Tail(cs)) ELSE cs

RECURSIVE RStrip(_)
RStrip(cs) ==
    IF cs # << >> /\ cs[Len(cs)] \in Whitespace
    THEN RStrip(SubSeq(cs, 1, Len(cs) - 1)) ELSE cs

\* s.strip()
Strip(cs) == RStrip(LStrip(cs))

\* s.split('\n')[0]
RECURSIVE FirstLine(_)
FirstLine(cs) ==
    IF cs = << >> \/ Head(cs) = "\n" THEN << >>
    ELSE <<Head(cs)>> \o FirstLine(Tail(cs))

UnknownVersion == Text(<<"U", "n", "k", "n", "o", "w", "n">>)

\* lines 156-167, given what the version subprocess does
get_trivy_version(out) ==
    IF out.kind = "completed"
    THEN Text(FirstLine(Strip(out.stdout.c)))
    ELSE UnknownVersion

\* a version query made as soon as the scan has returned
QueryVersionBeforeParse ==
    /\ pc \in {"scanned", "summarized"}
    /\ versionQueries = 0
    /\ versionQueries' = versionQueries + 1
    /\ \E out \in VersionOutcomes :
          /\ trivy_version' = get_trivy_version(out)
          /\ runs' = Append(runs, [what |-> "version", kind |-> out.kind, out |-> out])
    /\ pc' = IF pc = "scanned" THEN "scanned" ELSE "versioned"
    /\ UNCHANGED <<event, body, image, severity, ignore_unfixed, cmd, result,
                   trivy_output, vulnerabilities, summary, exc, response,
                   scans, arg, ret,
                   pairVars, finopsVars>>

\* line 107: the call of get_trivy_version()
QueryVersion ==
    /\ pc = "summarized"
    /\ versionQueries' = versionQueries + 1
    /\ \E out \in VersionOutcomes :
          /\ trivy_version' = get_trivy_version(out)
          /\ runs' = Append(runs, [what |-> "version", kind |-> out.kind, out |-> out])
    /\ pc' = "versioned"
    /\ UNCHANGED <<event, body, image, severity, ignore_unfixed, cmd, result,
                   trivy_output, vulnerabilities, summary, exc, response,
                   scans, arg, ret,
                   pairVars, finopsVars>>

ScanTime == Str("2024-01-01T00:00:00.000000")

\* lines 100-117
Respond ==
    /\ pc = "versioned"
    /\ response' = Envelope(200,
           [scanner |-> Str("Trivy (Lambda)"),
            image |-> image,
            scan_time |-> ScanTime,
            vulnerabilities |->
                List([i \in 1..Len(vulnerabilities) |-> Obj(vulnerabilities[i])]),
            summary |-> Obj([k \in DOMAIN summary |-> Num(summary[k])]),
            live_data |-> Bool(TRUE),
            trivy_version |-> trivy_version])
    /\ pc' = "done"
    /\ UNCHANGED <<event, body, image, severity, ignore_unfixed, cmd, result,
                   trivy_output, vulnerabilities, summary, trivy_version, exc,
                   scans, versionQueries, arg, ret, runs,
                   pairVars, finopsVars>>

\* a timeout clause that starts the scan once more before giving up
HandleTimeoutRetry ==
    /\ pc = "except_timeout"
    /\ IF scans < 2
       THEN pc' = "built" /\ response' = response
       ELSE /\ response' = Envelope(504,
                   [error |-> Str("Scan timed out. Try a smaller image or increase Lambda timeout."),
                    image |-> Get(body.o, "image", TimeoutImage)])
            /\ pc' = "done"
    /\ UNCHANGED <<event, body, image, severity, ignore_unfixed, cmd, result,
                   trivy_output, vulnerabilities, summary, trivy_version, exc,
                   scans, versionQueries, arg, ret, runs,
                   pairVars, finopsVars>>

\* lines 119-130
HandleTimeout ==
    /\ pc = "except_timeout"
    /\ response' = Envelope(504,
           [error |-> Str("Scan timed out. Try a smaller image or increase Lambda timeout."),
            image |-> Get(body.o, "image", TimeoutImage)])
    /\ pc' = "done"
    /\ UNCHANGED <<event, body, image, severity, ignore_unfixed, cmd, result,
                   trivy_output, vulnerabilities, summary, trivy_version, exc,
                   scans, versionQueries, arg, ret, runs,
                   pairVars, finopsVars>>

\* the generic clause answering with the timeout status
HandleExceptionAs504 ==
    /\ pc = "except_exception"
    /\ response' = Envelope(504, [error |-> Str(ExcText(exc))])
    /\ pc' = "done"
    /\ UNCHANGED <<event, body, image, severity, ignore_unfixed, cmd, result,
                   trivy_output, vulnerabilities, summary, trivy_version, exc,
                   scans, versionQueries, arg, ret, runs,
                   pairVars, finopsVars>>

\* lines 131-141
HandleException ==
    /\ pc = "except_exception"
    /\ response' = Envelope(500, [error |-> Str(ExcText(exc))])
    /\ pc' = "done"
    /\ UNCHANGED <<event, body, image, severity, ignore_unfixed, cmd, result,
                   trivy_output, vulnerabilities, summary, trivy_version, exc,
                   scans, versionQueries, arg, ret, runs,
                   pairVars, finopsVars>>

-----------------------------------------------------------------------------
(* A direct call of extract_cvss_score *)

Scores == {4, 8}

CvssEntries ==
    {EmptyDict}
    \cup {[V3Score |-> Num(a)] : a \in Scores}
    \cup {[V2Score |-> Num(a)] : a \in Scores}
    \cup {[V3Score |-> Num(a), V2Score |-> Num(b)] : a \in Scores, b \in Scores}

CvssMaps ==
    UNION {[S -> {Obj(e) : e \in CvssEntries}]
            : S \in SUBSET {"nvd", "redhat", "ghsa", "vendor"}}

CvssVulns ==
    {[VulnerabilityID |-> Str("CVE-2024-0001")]}
    \cup {[VulnerabilityID |-> Str("CVE-2024-0001"), CVSS |-> Obj(m)] : m \in CvssMaps}

CallExtract ==
    /\ pc = "cvss_call"
    /\ ret' = extract_cvss_score(arg)
    /\ pc' = "cvss_done"
    /\ UNCHANGED <<event, body, image, severity, ignore_unfixed, cmd, result,
                   trivy_output, vulnerabilities, summary, trivy_version, exc,
                   response, scans, versionQueries, arg, runs,
                   pairVars, finopsVars>>

-----------------------------------------------------------------------------
(* Two invocations of handler running side by side *)

Invocations == {1, 2}

\* the directory a command line tells the scanner to keep its cache in
CacheDirOf(c) == c[(CHOOSE k \in 1..Len(c) : c[k] = Str("--cache-dir")) + 1]

\* lines 32-49 in invocation i
PairReadRequest(i) ==
    /\ inv[i].pc = "parsed"
    /\ inv' = [inv EXCEPT ![i] =
                 [@ EXCEPT !.pc = "built",
                           !.cmd = BuildCmd(
                               Get(inv[i].request, "image", DefaultImage),
                               Get(inv[i].request, "severity", DefaultSeverity),
                               Get(inv[i].request, "ignore_unfixed", Bool(FALSE)))]]
    /\ UNCHANGED <<forked, handlerVars, finopsVars>>

\* lines 52-57 in invocation i: subprocess.run starts a child of its own,
\* which works in the cache directory named on its command line
PairStartScan(i) ==
    /\ inv[i].pc = "built"
    /\ forked' = forked + 1
    /\ inv' = [inv EXCEPT ![i] = [@ EXCEPT !.pc = "running", !.pid = forked']]
    /\ UNCHANGED <<handlerVars, finopsVars>>

\* the child of invocation i ends and subprocess.run returns
PairEndScan(i) ==
    /\ inv[i].pc = "running"
    /\ inv' = [inv EXCEPT ![i] = [@ EXCEPT !.pc = "scanned"]]
    /\ UNCHANGED <<forked, handlerVars, finopsVars>>

-----------------------------------------------------------------------------
(* Specifications *)

Locals ==
    /\ body = Unset /\ image = Unset /\ severity = Unset
    /\ ignore_unfixed = Unset /\ cmd = << >> /\ result = Unset
    /\ trivy_output = Unset /\ vulnerabilities = << >> /\ summary = Unset
    /\ trivy_version = Unset /\ exc = "none" /\ response = Unset
    /\ scans = 0 /\ versionQueries = 0 /\ runs = << >>

\* no invocation of handler is under way
HandlerIdle ==
    /\ pc = "idle" /\ event = EmptyDict
    /\ Locals
    /\ arg = Unset /\ ret = Unset

\* no pair of invocations is under way
PairIdle == inv = << >> /\ forked = 0

\* no function of finops_live_data.py is being called
FinopsIdle ==
    /\ session_state = EmptyDict /\ aws = << >>
    /\ fn = "none" /\ at = "idle" /\ local = EmptyDict /\ outcome = Unset

\* handler(event, context) for every event, with a few scanner outputs
Init ==
    /\ pc = "start"
    /\ event \in Events
    /\ Locals
    /\ arg = Unset /\ ret = Unset
    /\ PairIdle /\ FinopsIdle

Next ==
    \/ ParseBody
    \/ ReadRequest
    \/ RunScan(FlowOutcomes)
    \/ CheckResult
    \/ ParseOutput
    \/ TransformOutput
    \/ ComputeSummary
    \/ QueryVersion
    \/ Respond
    \/ HandleTimeout
    \/ HandleException

Spec == Init /\ [][Next]_vars

\* handler for two well-formed requests, with every scanner document
FindingsEvents == {EmptyDict, [body |-> JsonText(Obj(ReqImage))]}

InitFindings ==
    /\ pc = "start"
    /\ event \in FindingsEvents
    /\ Locals
    /\ arg = Unset /\ ret = Unset
    /\ PairIdle /\ FinopsIdle

NextFindings ==
    \/ ParseBody
    \/ ReadRequest
    \/ RunScan(FindingsOutcomes)
    \/ CheckResult
    \/ ParseOutput
    \/ TransformOutput
    \/ ComputeSummary
    \/ QueryVersion
    \/ Respond
    \/ HandleException

SpecFindings == InitFindings /\ [][NextFindings]_vars

\* extract_cvss_score(vuln) for every vuln of CvssVulns
InitCvss ==
    /\ pc = "cvss_call"
    /\ event = EmptyDict
    /\ Locals
    /\ arg \in CvssVulns /\ ret = Unset
    /\ PairIdle /\ FinopsIdle

NextCvss == CallExtract

SpecCvss == InitCvss /\ [][NextCvss]_vars

\* two invocations of handler between the parsed request and the end of the
\* scan, their steps interleaved in every order
InitPair ==
    /\ HandlerIdle
    /\ inv \in [Invocations ->
                  {[pc |-> "parsed", request |-> r, cmd |-> << >>, pid |-> 0]
                     : r \in {ReqEmpty, ReqImage, ReqFull}}]
    /\ forked = 0
    /\ FinopsIdle

NextPair ==
    \E i \in Invocations :
        \/ PairReadRequest(i)
        \/ PairStartScan(i)
        \/ PairEndScan(i)

SpecPair == InitPair /\ [][NextPair]_vars

-----------------------------------------------------------------------------
(* finops_live_data.py: the session, AWS and numbers *)

MaxDays == 2       \* elements of ResultsByTime in one Cost Explorer response
MaxGroups == 3     \* groups in one Cost Explorer response, over all days
MantissaBits == 3  \* significant bits of a float

\* a boto3 session whose credentials AWS accepts (valid) or rejects
Session(valid) == [t |-> "session", valid |-> valid]

\* a boto3 client and the credentials it signs with: those of a stored
\* session ("valid" or "stale") or the default chain ("default")
Client(service, creds) == [t |-> "client", service |-> service, creds |-> creds]

\* bool(v), for the objects of boto3 as well
IsTrue(v) == IF v.t \in {"session", "client"} THEN TRUE ELSE Truthy(v)

\* entries of the AWS log
Created(service) == [op |-> "client", service |-> service]
Api(service, name, ok) == [op |-> "api", service |-> service, name |-> name, ok |-> ok]

\* the contents of st.session_state that matter to this module
SessionStates ==
    {a @@ b : a \in {EmptyDict, [demo_mode |-> Bool(TRUE)], [demo_mode |-> Bool(FALSE)]},
              b \in {EmptyDict, [boto3_session |-> Null],
                     [boto3_session |-> Session(TRUE)],
                     [boto3_session |-> Session(FALSE)]}}

\* a float has MantissaBits significant bits; a number counts units of the
\* smallest amount, and Rnd(x) is the float nearest to x, ties to even
RECURSIVE Pow2(_)
Pow2(n) == IF n = 0 THEN 1 ELSE 2 * Pow2(n - 1)

RECURSIVE UlpFrom(_, _)
UlpFrom(x, k) == IF x < Pow2(MantissaBits) * k THEN k ELSE UlpFrom(x, 2 * k)

Rnd(x) ==
    LET k == UlpFrom(x, 1)
        q == x \div k
        r == x % k
    IN  IF 2 * r < k THEN q * k
        ELSE IF 2 * r > k THEN (q + 1) * k
        ELSE IF q % 2 = 0 THEN q * k ELSE (q + 1) * k

\* a + b on floats
FAdd(a, b) == Rnd(a + b)

\* the str that spells the number n
Decimal(n) == [t |-> "str", dec |-> n]

\* float(v)
ToFloat(v) ==
    CASE v.t = "num" -> Ok(Rnd(v.n))
      [] v.t = "str" -> IF "dec" \in DOMAIN v THEN Ok(Rnd(v.dec))
                        ELSE Raise("ValueError")
      [] OTHER -> Raise("TypeError")

\* what the sts probe of is_live_mode can do: succeed, be rejected by AWS, or
\* fail before any request (no region, no credentials found)
Probes == {"ok", "rejected", "noclient"}

\* what boto3.client / session.client can do
ClientOutcomes == {"ok", "error"}

-----------------------------------------------------------------------------
(* get_aws_client and is_live_mode *)

\* lines 29-39; made is what creating the client does
get_aws_client(ss, service_name, made) ==
    LET session == Get(ss, "boto3_session", Null)
    IN  IF made = "error" THEN [val |-> Null, log |-> << >>]
        ELSE [val |-> Client(service_name,
                             IF ~IsTrue(session) THEN "default"
                             ELSE IF session.valid THEN "valid" ELSE "stale"),
              log |-> <<Created(service_name)>>]

\* is_live_mode with the connectivity probe made before demo_mode is read
is_live_modeProbesFirst(ss, probe) ==
    LET session == Get(ss, "boto3_session", Null)
        log == IF probe = "noclient" THEN << >>
               ELSE <<Created("sts"), Api("sts", "get_caller_identity", probe = "ok")>>
    IN  IF IsTrue(Get(ss, "demo_mode", Bool(FALSE)))
        THEN [val |-> FALSE, log |-> log]
        ELSE IF ~IsTrue(session) THEN [val |-> probe = "ok", log |-> log]
        ELSE [val |-> TRUE, log |-> log]

\* lines 42-58; probe is what the sts round trip does if it is made
is_live_mode(ss, probe) ==
    IF IsTrue(Get(ss, "demo_mode", Bool(FALSE)))
    THEN [val |-> FALSE, log |-> << >>]
    ELSE LET session == Get(ss, "boto3_session", Null)
         IN  IF ~IsTrue(session)
             THEN CASE probe = "noclient" -> [val |-> FALSE, log |-> << >>]
                    [] probe = "rejected" ->
                         [val |-> FALSE,
                          log |-> <<Created("sts"),
                                    Api("sts", "get_caller_identity", FALSE)>>]
                    [] probe = "ok" ->
                         [val |-> TRUE,
                          log |-> <<Created("sts"),
                                    Api("sts", "get_caller_identity", TRUE)>>]
             ELSE [val |-> TRUE, log |-> << >>]

\* a direct call of is_live_mode()
CallIsLiveMode ==
    /\ fn = "none"
    /\ \E probe \in Probes :
          \E r \in {is_live_mode(session_state, probe)} :
              /\ outcome' = Ok(Bool(r.val))
              /\ aws' = aws \o r.log
    /\ fn' = "is_live_mode" /\ at' = "returned"
    /\ UNCHANGED <<session_state, local, handlerVars, pairVars>>

-----------------------------------------------------------------------------
(* fetch_real_cost_data *)

Services == {"Amazon EC2", "Amazon S3"}
Dates == <<"2024-01-01", "2024-01-02", "2024-01-03", "2024-01-04">>

\* one element of Groups
Group(service, amount) ==
    Obj([Keys |-> List(<<Str(service)>>),
         Metrics |-> Obj([UnblendedCost |-> Obj([Amount |-> Decimal(amount)])])])

\* the groups of the model: each service with two of the amounts
Groups ==
    {Group("Amazon EC2", 7), Group("Amazon EC2", 2),
     Group("Amazon S3", 2), Group("Amazon S3", 0)}


\* one element of ResultsByTime; a day without groups carries no 'Groups' key
\* on every other day
DayResult(i, groups) ==
    LET period == [TimePeriod |-> Obj([Start |-> Str(Dates[i])])]
    IN  Obj(IF groups = << >> /\ i % 2 = 0 THEN period
            ELSE With(period, "Groups", List(groups)))

\* the lists of m days that hold at most n groups together
RECURSIVE DayLists(_, _)
DayLists(m, n) ==
    IF m = 0 THEN {<< >>}
    ELSE UNION {{Append(ds, DayResult(m, gs))
                   : ds \in DayLists(m - 1, n - k), gs \in [1..k -> Groups]}
                : k \in 0..n}

\* the responses of get_cost_and_usage that have the documented shape
CostResponses ==
    {[ResultsByTime |-> List(ds)]
        : ds \in UNION {DayLists(m, MaxGroups) : m \in 0..MaxDays}}

\* responses of another shape: no ResultsByTime, a day without TimePeriod, an
\* amount that is not a number, a group without Keys
OddResponses ==
    {EmptyDict,
     [ResultsByTime |-> List(<<Obj([Groups |-> List(<< >>)])>>)],
     [ResultsByTime |-> List(<<Obj([TimePeriod |-> Obj([Start |-> Str(Dates[1])]),
          Groups |-> List(<<Obj([Keys |-> List(<<Str("Amazon EC2")>>),
               Metrics |-> Obj([UnblendedCost |-> Obj([Amount |-> Str("N/A")])])])>>)])>>)],
     [ResultsByTime |-> List(<<Obj([TimePeriod |-> Obj([Start |-> Str(Dates[1])]),
          Groups |-> List(<<Obj([Metrics |-> Obj([UnblendedCost |->
               Obj([Amount |-> Decimal(2)])])])>>)])>>)]}

\* what an API call can do: a ClientError with its code, another exception
\* (no network), or a response
ClientError(code) == [kind |-> "ClientError", code |-> code]
NoCall == [kind |-> "none"]

\* what a call through client can do: AWS rejects stale credentials
ApiOutcomes(client, responses) ==
    IF client.creds = "stale" THEN {ClientError("ExpiredToken")}
    ELSE {ClientError("AccessDenied"), ClientError("DataUnavailable"),
          [kind |-> "Exception"]}
         \cup {[kind |-> "response", response |-> r] : r \in responses}

\* lines 104-111: the loop over the groups of one day, from group j on
RECURSIVE CostGroups(_, _, _)
CostGroups(groups, j, acc) ==
    IF j > Len(groups) THEN Ok(acc)
    ELSE LET group == groups[j].o
             Added(service, cost) ==
                 IF ~cost.ok THEN cost
                 ELSE CostGroups(groups, j + 1,
                        [service_costs |->
                             With(acc.service_costs, service,
                                  FAdd(Get(acc.service_costs, service, 0), cost.val)),
                         day_total |-> FAdd(acc.day_total, cost.val),
                         total_cost |-> FAdd(acc.total_cost, cost.val)])
         IN  IF "Keys" \notin DOMAIN group THEN Raise("KeyError")
             ELSE IF group.Keys.l = << >> THEN Raise("IndexError")
             ELSE IF "Metrics" \notin DOMAIN group THEN Raise("KeyError")
             ELSE Added(group.Keys.l[1].s,
                        ToFloat(group.Metrics.o.UnblendedCost.o.Amount))

\* the loop with a total that counts the first day only
RECURSIVE CostResultsFirstDayTotal(_, _, _)
CostResultsFirstDayTotal(results, i, acc) ==
    IF i > Len(results) THEN Ok(acc)
    ELSE LET res == results[i].o
             Closed(date, day) ==
                 IF ~day.ok THEN day
                 ELSE CostResultsFirstDayTotal(results, i + 1,
                        [service_costs |-> day.val.service_costs,
                         total_cost |->
                             IF i = 1 THEN day.val.total_cost ELSE acc.total_cost,
                         daily_costs |->
                             Append(acc.daily_costs,
                                    [date |-> date, cost |-> day.val.day_total])])
         IN  IF "TimePeriod" \notin DOMAIN res THEN Raise("KeyError")
             ELSE Closed(res.TimePeriod.o.Start,
                         CostGroups(Get(res, "Groups", List(<< >>)).l, 1,
                                    [service_costs |-> acc.service_costs,
                                     day_total |-> 0,
                                     total_cost |-> 0]))

\* lines 99-117: the loop over ResultsByTime, from element i on
RECURSIVE CostResults(_, _, _)
CostResults(results, i, acc) ==
    IF i > Len(results) THEN Ok(acc)
    ELSE LET res == results[i].o
             Closed(date, day) ==
                 IF ~day.ok THEN day
                 ELSE CostResults(results, i + 1,
                        [service_costs |-> day.val.service_costs,
                         total_cost |-> day.val.total_cost,
                         daily_costs |->
                             Append(acc.daily_costs,
                                    [date |-> date, cost |-> day.val.day_total])])
         IN  IF "TimePeriod" \notin DOMAIN res THEN Raise("KeyError")
             ELSE Closed(res.TimePeriod.o.Start,
                         CostGroups(Get(res, "Groups", List(<< >>)).l, 1,
                                    [service_costs |-> acc.service_costs,
                                     day_total |-> 0,
                                     total_cost |-> acc.total_cost]))

\* lines 94-125 on the response of get_cost_and_usage
ProcessCosts(resp, days) ==
    LET Returned(r) ==
            IF ~r.ok THEN r
            ELSE Ok(Obj(
                   [total_cost |-> Num(r.val.total_cost),
                    service_costs |->
                        Obj([sv \in DOMAIN r.val.service_costs |->
                                 Num(r.val.service_costs[sv])]),
                    daily_costs |->
                        List([i \in 1..Len(r.val.daily_costs) |->
                                 Obj([date |-> r.val.daily_costs[i].date,
                                      cost |-> Num(r.val.daily_costs[i].cost)])]),
                    period_days |-> Num(days),
                    source |-> Str("AWS Cost Explorer")]))
    IN  Returned(CostResults(Get(resp, "ResultsByTime", List(<< >>)).l, 1,
                             [service_costs |-> EmptyDict, total_cost |-> 0,
                              daily_costs |-> << >>]))

\* lines 65-132; env says what the probe, the client and the API call do
fetch_real_cost_data(ss, env, days) ==
    LET Gated(live, ce) ==
            LET called == live.log \o ce.log
                          \o <<Api("ce", "get_cost_and_usage",
                                   env.api.kind = "response")>>
                ValueOf(r) == IF r.ok THEN r.val ELSE Null
            IN  IF ~live.val THEN [val |-> Null, log |-> live.log]
                ELSE IF ~IsTrue(ce.val)
                     THEN [val |-> Null, log |-> live.log \o ce.log]
                ELSE IF env.api.kind # "response" THEN [val |-> Null, log |-> called]
                ELSE [val |-> ValueOf(ProcessCosts(env.api.response, days)),
                      log |-> called]
    IN  Gated(is_live_mode(ss, env.probe), get_aws_client(ss, "ce", env.client))

\* the environments of one fetch: what the probe, the creation of the
\* clients and the API calls do; the API outcomes are those that a client
\* handed out by get_aws_client can see.  A function that makes one kind of
\* API call has no second call.
Envs(ss, responses, second) ==
    LET client == get_aws_client(ss, "ce", "ok").val
    IN  {[probe |-> p, client |-> c, api |-> a, client2 |-> c2, api2 |-> a2]
           : p \in Probes, c \in ClientOutcomes,
             a \in ApiOutcomes(client, responses),
             c2 \in IF second = {} THEN {"ok"} ELSE ClientOutcomes,
             a2 \in IF second = {} THEN {NoCall} ELSE ApiOutcomes(client, second)}

DefaultDays == 30

\* a direct call of fetch_real_cost_data()
CallFetchCosts(responses) ==
    /\ fn = "none"
    /\ \E env \in Envs(session_state, responses, {}) :
          \E r \in {fetch_real_cost_data(session_state, env, DefaultDays)} :
              /\ outcome' = Ok(r.val)
              /\ aws' = aws \o r.log
              /\ local' = [response |-> IF env.api.kind = "response"
                                        THEN Obj(env.api.response) ELSE Null]
    /\ fn' = "fetch_real_cost_data" /\ at' = "returned"
    /\ UNCHANGED <<session_state, handlerVars, pairVars>>

-----------------------------------------------------------------------------
(* The other fetch functions.  Their responses are kept to the keys the    *)
(* functions read, with zero or one item.                                  *)

ForecastResponses == {EmptyDict, [Total |-> Obj([Amount |-> Decimal(7)])]}

\* lines 135-179
fetch_real_forecast(ss, env) ==
    LET Gated(live, ce) ==
            LET called == live.log \o ce.log
                          \o <<Api("ce", "get_cost_forecast",
                                   env.api.kind = "response")>>
                Forecast(amount) ==
                    IF ~amount.ok THEN Null
                    ELSE Obj([forecast_amount |-> Num(amount.val),
                              forecast_start |-> Str("2024-01-02"),
                              forecast_end |-> Str("2024-02-01"),
                              source |-> Str("AWS Cost Explorer Forecast")])
            IN  IF ~live.val THEN [val |-> Null, log |-> live.log]
                ELSE IF ~IsTrue(ce.val)
                     THEN [val |-> Null, log |-> live.log \o ce.log]
                ELSE IF env.api.kind = "ClientError"
                     THEN [val |-> IF env.api.code = "DataUnavailable"
                                   THEN Obj([forecast_amount |-> Null,
                                             error |-> Str("Not enough historical data")])
                                   ELSE Null,
                           log |-> called]
                ELSE IF env.api.kind = "Exception" THEN [val |-> Null, log |-> called]
                ELSE [val |-> Forecast(ToFloat(
                                 Get(Get(env.api.response, "Total", Obj(EmptyDict)).o,
                                     "Amount", Num(0)))),
                      log |-> called]
    IN  Gated(is_live_mode(ss, env.probe), get_aws_client(ss, "ce", env.client))

MonthlyResponses ==
    {EmptyDict,
     [ResultsByTime |-> List(<<Obj(
          [TimePeriod |-> Obj([Start |-> Str("2024-01-01")]),
           Total |-> Obj([UnblendedCost |-> Obj([Amount |-> Decimal(7)])])])>>)]}

\* datetime.strptime(d, '%Y-%m-%d').strftime('%b') for the dates of the model
MonthName(d) == Str("Jan")

\* lines 182-228
fetch_monthly_costs(ss, env, months) ==
    LET Gated(live, ce) ==
            LET called == live.log \o ce.log
                          \o <<Api("ce", "get_cost_and_usage",
                                   env.api.kind = "response")>>
                Months(results) ==
                    List([i \in 1..Len(results) |->
                            Obj([month |-> MonthName(results[i].o.TimePeriod.o.Start),
                                 date |-> results[i].o.TimePeriod.o.Start,
                                 cost |-> Num(ToFloat(
                                     Get(Get(Get(results[i].o, "Total",
                                                 Obj(EmptyDict)).o,
                                             "UnblendedCost", Obj(EmptyDict)).o,
                                         "Amount", Num(0))).val)])])
            IN  IF ~live.val THEN [val |-> Null, log |-> live.log]
                ELSE IF ~IsTrue(ce.val)
                     THEN [val |-> Null, log |-> live.log \o ce.log]
                ELSE IF env.api.kind # "response" THEN [val |-> Null, log |-> called]
                ELSE [val |-> Months(Get(env.api.response, "ResultsByTime",
                                         List(<< >>)).l),
                      log |-> called]
    IN  Gated(is_live_mode(ss, env.probe), get_aws_client(ss, "ce", env.client))

BudgetResponses ==
    {EmptyDict,
     [Budgets |-> List(<<Obj([BudgetName |-> Str("Monthly"),
                              BudgetType |-> Str("COST"),
                              BudgetLimit |-> Obj([Amount |-> Decimal(7)])])>>)]}

\* lines 235-292; the entries are kept by name, type and limit
fetch_real_budgets(ss, env) ==
    LET Gated(live, budgets_client, sts) ==
            LET made == live.log \o budgets_client.log \o sts.log
                asked == made \o <<Api("sts", "get_caller_identity",
                                       env.api2.kind = "response")>>
                called == asked \o <<Api("budgets", "describe_budgets",
                                         env.api.kind = "response")>>
                Budgets(items) ==
                    List([i \in 1..Len(items) |->
                            Obj([name |-> items[i].o.BudgetName,
                                 type |-> items[i].o.BudgetType,
                                 limit |-> Num(ToFloat(
                                     items[i].o.BudgetLimit.o.Amount).val)])])
            IN  IF ~live.val THEN [val |-> Null, log |-> live.log]
                ELSE IF ~IsTrue(budgets_client.val)
                     THEN [val |-> Null, log |-> live.log \o budgets_client.log]
                ELSE IF ~IsTrue(sts.val) THEN [val |-> Null, log |-> made]
                ELSE IF env.api2.kind # "response" THEN [val |-> Null, log |-> asked]
                ELSE IF env.api.kind # "response" THEN [val |-> Null, log |-> called]
                ELSE [val |-> Budgets(Get(env.api.response, "Budgets", List(<< >>)).l),
                      log |-> called]
    IN  Gated(is_live_mode(ss, env.probe),
              get_aws_client(ss, "budgets", env.client),
              get_aws_client(ss, "sts", env.client2))

Ec2Responses ==
    {EmptyDict,
     [instanceRecommendations |-> List(<<Obj([finding |-> Str("OPTIMIZED")])>>)],
     [instanceRecommendations |-> List(<<Obj(
          [finding |-> Str("OVER_PROVISIONED"),
           recommendationOptions |-> List(<<Obj([instanceType |-> Str("t3.small")])>>)])>>)]}

EbsResponses ==
    {EmptyDict,
     [volumeRecommendations |-> List(<<Obj([finding |-> Str("NotOptimized")])>>)]}

\* lines 317-340: the recommendations made from one response
Ec2Recommendations(resp) ==
    LET Made(kept) ==
            [i \in 1..Len(kept) |->
                Obj([type |-> Str("EC2"),
                     finding |-> Get(kept[i].o, "finding", Null),
                     category |-> Str("Compute")])]
    IN  Made(SelectSeq(Get(resp, "instanceRecommendations", List(<< >>)).l,
                       LAMBDA rec :
                           /\ Get(rec.o, "finding", Null) # Str("OPTIMIZED")
                           /\ IsTrue(Get(rec.o, "recommendationOptions", List(<< >>)))))

\* lines 352-363
EbsRecommendations(resp) ==
    LET Made(kept) ==
            [i \in 1..Len(kept) |->
                Obj([type |-> Str("EBS"),
                     finding |-> Get(kept[i].o, "finding", Null),
                     category |-> Str("Storage")])]
    IN  Made(SelectSeq(Get(resp, "volumeRecommendations", List(<< >>)).l,
                       LAMBDA rec : Get(rec.o, "finding", Null) # Str("OPTIMIZED")))

\* lines 299-368: both calls swallow their failures
fetch_real_recommendations(ss, env) ==
    LET Gated(live, co) ==
            LET called == live.log \o co.log
                          \o <<Api("compute-optimizer",
                                   "get_ec2_instance_recommendations",
                                   env.api.kind = "response"),
                               Api("compute-optimizer",
                                   "get_ebs_volume_recommendations",
                                   env.api2.kind = "response")>>
                Result(recommendations) ==
                    IF recommendations # << >> THEN List(recommendations) ELSE Null
            IN  IF ~live.val THEN [val |-> Null, log |-> live.log]
                ELSE IF ~IsTrue(co.val)
                     THEN [val |-> Null, log |-> live.log \o co.log]
                ELSE [val |-> Result(
                          (IF env.api.kind = "response"
                           THEN Ec2Recommendations(env.api.response) ELSE << >>)
                          \o (IF env.api2.kind = "response"
                              THEN EbsRecommendations(env.api2.response) ELSE << >>)),
                      log |-> called]
    IN  Gated(is_live_mode(ss, env.probe),
              get_aws_client(ss, "compute-optimizer", env.client))

HubResponses ==
    {EmptyDict,
     [items |-> List(<<Obj([recommendationId |-> Str("rec-1"),
                            estimatedMonthlySavings |-> Num(7)])>>)]}

\* lines 371-407
fetch_cost_optimization_hub(ss, env) ==
    LET Gated(live, coh) ==
            LET called == live.log \o coh.log
                          \o <<Api("cost-optimization-hub", "list_recommendations",
                                   env.api.kind = "response")>>
                Opportunities(items) ==
                    List([i \in 1..Len(items) |->
                            Obj([id |-> Get(items[i].o, "recommendationId", Null),
                                 estimated_savings |->
                                     Get(items[i].o, "estimatedMonthlySavings", Num(0)),
                                 implementation_effort |->
                                     Get(items[i].o, "implementationEffort",
                                         Str("Unknown"))])])
            IN  IF ~live.val THEN [val |-> Null, log |-> live.log]
                ELSE IF ~IsTrue(coh.val)
                     THEN [val |-> Null, log |-> live.log \o coh.log]
                ELSE IF env.api.kind # "response" THEN [val |-> Null, log |-> called]
                ELSE [val |-> Opportunities(Get(env.api.response, "items",
                                                List(<< >>)).l),
                      log |-> called]
    IN  Gated(is_live_mode(ss, env.probe),
              get_aws_client(ss, "cost-optimization-hub", env.client))

MonitorResponses ==
    {EmptyDict,
     [AnomalyMonitors |-> List(<<Obj([MonitorArn |-> Str("arn:monitor/1")])>>)]}

AnomalyResponses ==
    {EmptyDict, [Anomalies |-> List(<<Obj([AnomalyId |-> Str("a-1")])>>)]}

\* lines 414-464, for the zero or one monitor of the model
fetch_real_anomalies(ss, env) ==
    LET Gated(live, ce) ==
            LET listed == live.log \o ce.log
                          \o <<Api("ce", "get_anomaly_monitors",
                                   env.api.kind = "response")>>
                called == listed
                          \o <<Api("ce", "get_anomalies", env.api2.kind = "response")>>
                Anomalies(found) ==
                    List([i \in 1..Len(found) |->
                            Obj([id |-> Get(found[i].o, "AnomalyId", Null),
                                 root_causes |->
                                     Get(found[i].o, "RootCauses", List(<< >>))])])
            IN  IF ~live.val THEN [val |-> Null, log |-> live.log]
                ELSE IF ~IsTrue(ce.val)
                     THEN [val |-> Null, log |-> live.log \o ce.log]
                ELSE IF env.api.kind # "response" THEN [val |-> Null, log |-> listed]
                ELSE IF Get(env.api.response, "AnomalyMonitors", List(<< >>)).l = << >>
                     THEN [val |-> List(<< >>), log |-> listed]
                ELSE IF env.api2.kind # "response" THEN [val |-> Null, log |-> called]
                ELSE [val |-> Anomalies(Get(env.api2.response, "Anomalies",
                                            List(<< >>)).l),
                      log |-> called]
    IN  Gated(is_live_mode(ss, env.probe), get_aws_client(ss, "ce", env.client))

\* a few Cost Explorer responses for the flow of control
FlowCostResponses ==
    {EmptyDict,
     [ResultsByTime |-> List(<<DayResult(1, <<Group("Amazon EC2", 2)>>)>>)]}

FetchFunctions ==
    {"fetch_real_cost_data", "fetch_real_forecast", "fetch_monthly_costs",
     "fetch_real_budgets", "fetch_real_recommendations",
     "fetch_cost_optimization_hub", "fetch_real_anomalies"}

DefaultMonths == 6

\* the environments in which fetch function f can run
FetchEnvs(f, ss) ==
    CASE f = "fetch_real_cost_data" -> Envs(ss, FlowCostResponses, {})
      [] f = "fetch_real_forecast" -> Envs(ss, ForecastResponses, {})
      [] f = "fetch_monthly_costs" -> Envs(ss, MonthlyResponses, {})
      [] f = "fetch_real_budgets" -> Envs(ss, BudgetResponses,
                                           {[Account |-> Str("123456789012")]})
      [] f = "fetch_real_recommendations" -> Envs(ss, Ec2Responses, EbsResponses)
      [] f = "fetch_cost_optimization_hub" -> Envs(ss, HubResponses, {})
      [] f = "fetch_real_anomalies" -> Envs(ss, MonitorResponses, AnomalyResponses)

\* the call f() with its default arguments
Fetch(f, ss, env) ==
    CASE f = "fetch_real_cost_data" -> fetch_real_cost_data(ss, env, DefaultDays)
      [] f = "fetch_real_forecast" -> fetch_real_forecast(ss, env)
      [] f = "fetch_monthly_costs" -> fetch_monthly_costs(ss, env, DefaultMonths)
      [] f = "fetch_real_budgets" -> fetch_real_budgets(ss, env)
      [] f = "fetch_real_recommendations" -> fetch_real_recommendations(ss, env)
      [] f = "fetch_cost_optimization_hub" -> fetch_cost_optimization_hub(ss, env)
      [] f = "fetch_real_anomalies" -> fetch_real_anomalies(ss, env)

\* a direct call of one of the fetch functions
CallFetch ==
    /\ fn = "none"
    /\ \E f \in FetchFunctions :
          \E env \in FetchEnvs(f, session_state) :
              \E r \in {Fetch(f, session_state, env)} :
                  /\ outcome' = Ok(r.val)
                  /\ aws' = aws \o r.log
                  /\ fn' = f
    /\ at' = "returned"
    /\ UNCHANGED <<session_state, local, handlerVars, pairVars>>

-----------------------------------------------------------------------------
(* get_finops_summary *)

\* the keys filled in after the gate, in the order of lines 489-493, and the
\* function that fills each
SummaryKeys == <<"costs", "budgets", "forecast", "recommendations", "monthly_costs">>

SummaryFetches ==
    <<"fetch_real_cost_data", "fetch_real_budgets", "fetch_real_forecast",
      "fetch_real_recommendations", "fetch_monthly_costs">>

\* lines 478-485: the dict with its mode label
NewSummary(live) ==
    [mode |-> IF live THEN Str("LIVE") ELSE Str("DEMO"),
     costs |-> Null, budgets |-> Null, forecast |-> Null,
     recommendations |-> Null, anomalies |-> Null]

\* lines 478-485: the first evaluation of is_live_mode() labels the summary
SummaryStart ==
    /\ fn = "none"
    /\ \E probe \in Probes :
          \E live \in {is_live_mode(session_state, probe)} :
              /\ local' = [summary |-> NewSummary(live.val), fetched |-> 0]
              /\ aws' = aws \o live.log
    /\ fn' = "get_finops_summary" /\ at' = "gate"
    /\ UNCHANGED <<session_state, outcome, handlerVars, pairVars>>

\* line 487: the second evaluation of is_live_mode() opens or skips the block
SummaryGate ==
    /\ fn = "get_finops_summary" /\ at = "gate"
    /\ \E probe \in Probes :
          \E live \in {is_live_mode(session_state, probe)} :
              /\ aws' = aws \o live.log
              /\ IF live.val
                 THEN at' = "fetch" /\ outcome' = outcome
                 ELSE at' = "returned" /\ outcome' = Ok(Obj(local.summary))
    /\ UNCHANGED <<session_state, fn, local, handlerVars, pairVars>>

\* lines 489-495: the next fetch of the block; the last one is followed by
\* the return
SummaryFetch ==
    /\ fn = "get_finops_summary" /\ at = "fetch"
    /\ \E k \in {local.fetched + 1} :
          \E env \in FetchEnvs(SummaryFetches[k], session_state) :
              \E r \in {Fetch(SummaryFetches[k], session_state, env)} :
                  \E filled \in {With(local.summary, SummaryKeys[k], r.val)} :
                      /\ local' = [summary |-> filled, fetched |-> k]
                      /\ aws' = aws \o r.log
                      /\ IF k = Len(SummaryKeys)
                         THEN at' = "returned" /\ outcome' = Ok(Obj(filled))
                         ELSE at' = "fetch" /\ outcome' = outcome
    /\ UNCHANGED <<session_state, fn, handlerVars, pairVars>>

-----------------------------------------------------------------------------
(* render_real_cost_dashboard *)

\* lines 673-677: the gate
RenderStart ==
    /\ fn = "none"
    /\ \E probe \in Probes :
          \E live \in {is_live_mode(session_state, probe)} :
              /\ aws' = aws \o live.log
              /\ IF live.val
                 THEN at' = "fetch" /\ outcome' = outcome
                 ELSE at' = "returned" /\ outcome' = Ok(Null)
    /\ fn' = "render_real_cost_dashboard"
    /\ UNCHANGED <<session_state, local, handlerVars, pairVars>>

\* lines 679-683
RenderFetch(responses) ==
    /\ fn = "render_real_cost_dashboard" /\ at = "fetch"
    /\ \E env \in Envs(session_state, responses, {}) :
          \E r \in {fetch_real_cost_data(session_state, env, DefaultDays)} :
              /\ aws' = aws \o r.log
              /\ local' = [costs |-> r.val]
              /\ IF IsTrue(r.val)
                 THEN at' = "metrics" /\ outcome' = outcome
                 ELSE at' = "returned" /\ outcome' = Ok(Null)
    /\ UNCHANGED <<session_state, fn, handlerVars, pairVars>>

\* max(d, key=d.get): a key of the largest value, ValueError on an empty dict
MaxKey(d) ==
    IF DOMAIN d = {} THEN Raise("ValueError")
    ELSE Ok(CHOOSE k \in DOMAIN d : \A j \in DOMAIN d : d[j].n <= d[k].n)

\* lines 686-694: the three metrics
RenderMetrics ==
    /\ fn = "render_real_cost_dashboard" /\ at = "metrics"
    /\ \E top_service \in {MaxKey(local.costs.o.service_costs.o)} :
           IF top_service.ok
           THEN /\ local' = With(local, "top_service", Str(top_service.val))
                /\ at' = "charts" /\ outcome' = outcome
           ELSE /\ local' = local
                /\ at' = "raised" /\ outcome' = top_service
    /\ UNCHANGED <<session_state, aws, fn, handlerVars, pairVars>>

\* v / total * 100 for every service: ZeroDivisionError on a total of 0
Percentages(service_costs, total) ==
    IF DOMAIN service_costs # {} /\ total = 0 THEN Raise("ZeroDivisionError")
    ELSE Ok([k \in DOMAIN service_costs |-> (service_costs[k].n * 100) \div total])

\* lines 698-729: the two charts and the table with its percentages
RenderBreakdown ==
    /\ fn = "render_real_cost_dashboard" /\ at = "charts"
    /\ \E shares \in {Percentages(local.costs.o.service_costs.o,
                                  local.costs.o.total_cost.n)} :
           IF shares.ok
           THEN /\ local' = With(local, "shares", shares.val)
                /\ at' = "returned" /\ outcome' = Ok(Null)
           ELSE /\ local' = local
                /\ at' = "raised" /\ outcome' = shares
    /\ UNCHANGED <<session_state, aws, fn, handlerVars, pairVars>>

-----------------------------------------------------------------------------
(* Specifications of the calls into finops_live_data.py *)

\* one call of is_live_mode or of a fetch function, in every session state
InitFinops ==
    /\ HandlerIdle /\ PairIdle
    /\ session_state \in SessionStates
    /\ aws = << >> /\ fn = "none" /\ at = "idle"
    /\ local = EmptyDict /\ outcome = Unset

NextFinops ==
    \/ CallIsLiveMode
    \/ CallFetch

SpecFinops == InitFinops /\ [][NextFinops]_vars

\* one call of get_finops_summary, in demo mode, with default credentials,
\* with a stored session that is valid and with one that is stale
InitSummary ==
    /\ HandlerIdle /\ PairIdle
    /\ session_state \in {[demo_mode |-> Bool(TRUE)], EmptyDict,
                          [boto3_session |-> Session(TRUE)],
                          [boto3_session |-> Session(FALSE)]}
    /\ aws = << >> /\ fn = "none" /\ at = "idle"
    /\ local = EmptyDict /\ outcome = Unset

NextSummary ==
    \/ SummaryStart
    \/ SummaryGate
    \/ SummaryFetch

SpecSummary == InitSummary /\ [][NextSummary]_vars

\* one call of fetch_real_cost_data or of render_real_cost_dashboard, with
\* every Cost Explorer response, in demo mode, with default credentials and
\* with a stored session
InitCosts ==
    /\ HandlerIdle /\ PairIdle
    /\ session_state \in {[demo_mode |-> Bool(TRUE)], EmptyDict,
                          [boto3_session |-> Session(TRUE)]}
    /\ aws = << >> /\ fn = "none" /\ at = "idle"
    /\ local = EmptyDict /\ outcome = Unset

NextCosts ==
    \/ CallFetchCosts(CostResponses \cup OddResponses)
    \/ RenderStart
    \/ RenderFetch(CostResponses \cup OddResponses)
    \/ RenderMetrics
    \/ RenderBreakdown

SpecCosts == InitCosts /\ [][NextCosts]_vars

-----------------------------------------------------------------------------
(* Vocabulary of the properties *)

Done == pc = "done"
Status == response.statusCode
RespDoc == response.body.enc.o
Succeeded == Done /\ Status = 200
ScanCompleted == result # Unset

\* the raw findings of a scanner document, target after target
RECURSIVE RawFindings(_)
RawFindings(targets) ==
    IF targets = << >> THEN << >>
    ELSE (IF "Vulnerabilities" \in DOMAIN Head(targets).o
          THEN Head(targets).o.Vulnerabilities.l ELSE << >>)
         \o RawFindings(Tail(targets))

RawOf(stdout) ==
    IF "Results" \in DOMAIN stdout.enc.o
    THEN RawFindings(stdout.enc.o.Results.l) ELSE << >>

\* a raw finding of the shape the scanner emits
ValidVuln(v) ==
    /\ IsObj(v)
    /\ "Description" \in DOMAIN v.o => IsStr(v.o.Description)
    /\ "References" \in DOMAIN v.o => v.o.References.t = "list"
    /\ "CVSS" \in DOMAIN v.o =>
          /\ IsObj(v.o.CVSS)
          /\ \A k \in DOMAIN v.o.CVSS.o : IsObj(v.o.CVSS.o[k])

ValidTarget(tg) ==
    /\ IsObj(tg)
    /\ "Vulnerabilities" \in DOMAIN tg.o =>
          /\ tg.o.Vulnerabilities.t = "list"
          /\ \A j \in 1..Len(tg.o.Vulnerabilities.l) :
                ValidVuln(tg.o.Vulnerabilities.l[j])

\* standard output that is JSON of the scanner's shape
ValidScannerJson(stdout) ==
    /\ "enc" \in DOMAIN stdout
    /\ IsObj(stdout.enc)
    /\ "Results" \in DOMAIN stdout.enc.o =>
          /\ stdout.enc.o.Results.t = "list"
          /\ \A i \in 1..Len(stdout.enc.o.Results.l) :
                ValidTarget(stdout.enc.o.Results.l[i])

\* the message m contains the text txt
Includes(m, txt) ==
    \/ txt = ""
    \/ IF "parts" \in DOMAIN m
       THEN \E i \in 1..Len(m.parts) : m.parts[i] = txt
       ELSE m.s = txt

EnvelopeShape ==
    /\ DOMAIN response = {"statusCode", "headers", "body"}
    /\ Status \in {200, 500, 504}
    /\ "enc" \in DOMAIN response.body
    /\ IsObj(response.body.enc)

-----------------------------------------------------------------------------
(* C1..C10 *)

\* C1: whatever the event, the outcome of the scan and the outcome of the
\* version query, no exception leaves handler: every position before the
\* return has a next step, and the returned value is an envelope with
\* statusCode, headers and body.
C1_NeverRaises ==
    /\ pc # "raised"
    /\ Done => EnvelopeShape
    /\ ~Done => ENABLED Next

C1_Witness ==
    Done /\ exc = "AttributeError" /\ Status = 500 /\ EnvelopeShape

\* C2: when the scan times out, handler returns 504 and the body's image is
\* the reference that was requested and handed to the scanner.
C2_TimeoutKeepsImage ==
    (Done /\ exc = "TimeoutExpired") =>
        /\ Status = 504
        /\ "image" \in DOMAIN RespDoc
        /\ RespDoc.image = cmd[Len(cmd)]

\* C3: a non-zero exit with valid scanner JSON on standard output is a
\* success: status 200 and one normalized finding per raw vulnerability.
C3_NonZeroExitWithJson ==
    (Done /\ ScanCompleted /\ result.returncode # 0
          /\ ValidScannerJson(result.stdout)) =>
        /\ Status = 200
        /\ Len(RespDoc.vulnerabilities.l) = Len(RawOf(result.stdout))

C3_Witness ==
    /\ Succeeded /\ result.returncode # 0
    /\ ValidScannerJson(result.stdout)
    /\ Len(RespDoc.vulnerabilities.l) = 2

NoParseableOutput(stdout) == ~Truthy(stdout) \/ ~json_loads(stdout).ok

\* C4 as stated: a non-zero exit with empty or non-JSON standard output
\* gives 500 with an error message that includes the captured stderr.
C4_ScanFailedAnyUnparseable ==
    (Done /\ ScanCompleted /\ result.returncode # 0
          /\ NoParseableOutput(result.stdout)) =>
        /\ Status = 500
        /\ Includes(RespDoc.error, result.stderr.s)

\* C4 amended: a non-zero exit with EMPTY standard output gives 500 with an
\* error message that includes the captured stderr; a non-zero exit with
\* non-empty standard output that is not JSON gives 500 with the parser's
\* message instead.
C4_ScanFailedEmptyOutput ==
    (Done /\ ScanCompleted /\ result.returncode # 0) =>
        /\ ~Truthy(result.stdout) =>
              /\ Status = 500
              /\ Includes(RespDoc.error, result.stderr.s)
              /\ RespDoc.error.parts[1] = "Trivy scan failed: "
        /\ (Truthy(result.stdout) /\ ~json_loads(result.stdout).ok) =>
              /\ Status = 500
              /\ RespDoc.error = Str(ExcText("JSONDecodeError"))

C4_Witness ==
    /\ Done /\ ScanCompleted /\ result.returncode # 0
    /\ ~Truthy(result.stdout) /\ result.stderr.s # ""
    /\ Status = 500 /\ Includes(RespDoc.error, result.stderr.s)

\* C5: standard output that is present but not valid structured data gives
\* a 500 envelope whose body carries 'error' and the requested 'image'.
C5_ParseFailedCarriesImage ==
    (Done /\ ScanCompleted /\ Truthy(result.stdout)
          /\ ~ValidScannerJson(result.stdout)) =>
        /\ Status = 500
        /\ "error" \in DOMAIN RespDoc
        /\ "image" \in DOMAIN RespDoc
        /\ RespDoc.image = image

NoFixSentinel == Str("No fix available")

NoFixData(raw) == "FixedVersion" \notin DOMAIN raw.o \/ raw.o.FixedVersion = Null

\* C6: a raw finding without fixed-version data (key absent or null) gets
\* the sentinel; fixed_version is never null or absent.
C6_FixedVersionSentinel ==
    Succeeded =>
        \A i \in 1..Len(RespDoc.vulnerabilities.l) :
            LET f == RespDoc.vulnerabilities.l[i].o
                raw == RawOf(result.stdout)[i]
            IN  /\ "fixed_version" \in DOMAIN f
                /\ f.fixed_version # Null
                /\ NoFixData(raw) => f.fixed_version = NoFixSentinel

\* C7: in every success response summary.total is the length of the
\* vulnerabilities list.
C7_TotalIsLength ==
    Succeeded => RespDoc.summary.o.total.n = Len(RespDoc.vulnerabilities.l)

C7_Witness ==
    /\ Succeeded
    /\ Len(RespDoc.vulnerabilities.l) = 2
    /\ RespDoc.summary.o.total.n = 2

Buckets == {"critical", "high", "medium", "low"}
BucketSum ==
    RespDoc.summary.o.critical.n + RespDoc.summary.o.high.n
    + RespDoc.summary.o.medium.n + RespDoc.summary.o.low.n
Enumeration == {Str("CRITICAL"), Str("HIGH"), Str("MEDIUM"), Str("LOW"), Str("UNKNOWN")}
NamedLabels == {Str("CRITICAL"), Str("HIGH"), Str("MEDIUM"), Str("LOW")}

AllSeveritiesIn(labels) ==
    \A i \in 1..Len(RespDoc.vulnerabilities.l) :
        RespDoc.vulnerabilities.l[i].o.severity \in labels

\* C8 as stated: the buckets add up to at most total, with equality iff
\* every severity is one of CRITICAL, HIGH, MEDIUM, LOW, UNKNOWN.
C8_BucketsEqualIffRecognized ==
    Succeeded =>
        /\ BucketSum <= RespDoc.summary.o.total.n
        /\ (BucketSum = RespDoc.summary.o.total.n) <=> AllSeveritiesIn(Enumeration)

\* C8 amended: the buckets add up to at most total, with equality iff every
\* severity is one of the four bucketed labels CRITICAL, HIGH, MEDIUM, LOW
\* (a finding labelled UNKNOWN counts in total only).
C8_BucketsEqualIffNamed ==
    Succeeded =>
        /\ BucketSum <= RespDoc.summary.o.total.n
        /\ (BucketSum = RespDoc.summary.o.total.n) <=> AllSeveritiesIn(NamedLabels)

C8_Witness ==
    /\ Succeeded
    /\ BucketSum = 1
    /\ RespDoc.summary.o.total.n = 2
    /\ AllSeveritiesIn(Enumeration)

PriorityOrder == <<"nvd", "redhat", "ghsa">>

HasScore(entry) == "V3Score" \in DOMAIN entry.o \/ "V2Score" \in DOMAIN entry.o
ScoreOf(entry) ==
    IF "V3Score" \in DOMAIN entry.o THEN entry.o.V3Score ELSE entry.o.V2Score

CvssOf(vuln) == IF "CVSS" \in DOMAIN vuln THEN vuln.CVSS.o ELSE EmptyDict
ListedIn(cvss) == {i \in 1..Len(PriorityOrder) : PriorityOrder[i] \in DOMAIN cvss}
Scored(cvss) == {i \in ListedIn(cvss) : HasScore(cvss[PriorityOrder[i]])}

\* C9: when exactly two of nvd, redhat, ghsa are present and both carry a
\* score, the result is the score of the one that comes first in the order
\* nvd, redhat, ghsa, whatever the other one holds.
C9_HigherPriorityWins ==
    (pc = "cvss_done" /\ Cardinality(ListedIn(CvssOf(arg))) = 2
                      /\ Scored(CvssOf(arg)) = ListedIn(CvssOf(arg))) =>
        LET first == CHOOSE i \in Scored(CvssOf(arg)) :
                         \A j \in Scored(CvssOf(arg)) : i <= j
        IN  ret = Ok(ScoreOf(CvssOf(arg)[PriorityOrder[first]]))

C9_Witness ==
    /\ pc = "cvss_done"
    /\ DOMAIN CvssOf(arg) = {"redhat", "ghsa"}
    /\ CvssOf(arg)["redhat"] = Obj([V3Score |-> Num(4)])
    /\ CvssOf(arg)["ghsa"] = Obj([V3Score |-> Num(8)])
    /\ ret = Ok(Num(4))

\* C10: the result is the first available score along nvd, redhat, ghsa: a
\* source that is present without a score is skipped, and the result is 0
\* only when no listed source holds a score.
C10_FirstAvailableScore ==
    pc = "cvss_done" =>
        IF Scored(CvssOf(arg)) = {}
        THEN ret = Ok(Num(0))
        ELSE LET first == CHOOSE i \in Scored(CvssOf(arg)) :
                              \A j \in Scored(CvssOf(arg)) : i <= j
             IN  ret = Ok(ScoreOf(CvssOf(arg)[PriorityOrder[first]]))

-----------------------------------------------------------------------------
(* C11..C20 *)

ScanLaunched ==
    \E i \in 1..Len(runs) : runs[i].what = "scan" /\ runs[i].kind # "badargs"
ScanTimedOut ==
    \E i \in 1..Len(runs) : runs[i].what = "scan" /\ runs[i].kind = "timeout"
VersionTimedOut ==
    \E i \in 1..Len(runs) : runs[i].what = "version" /\ runs[i].kind = "timeout"

\* the version query failed: launch error, timeout, non-zero exit or no output
VersionFailed(out) ==
    \/ out.kind \in {"timeout", "oserror"}
    \/ out.kind = "completed" /\ (out.returncode # 0 \/ out.stdout.c = << >>)

UnknownText == Text(<<"U", "n", "k", "n", "o", "w", "n">>)

\* C11: any failure of the version query (launch error, timeout, non-zero
\* exit, empty output) leaves the status of the response at 200 and makes
\* trivy_version the string "Unknown".
C11_VersionFailureGivesUnknown ==
    \A i \in 1..Len(runs) :
        (Done /\ runs[i].what = "version" /\ VersionFailed(runs[i].out)) =>
            /\ Status = 200
            /\ RespDoc.trivy_version = UnknownText

CorsHeader == "Access-Control-Allow-Origin"

\* C12: every response carries Access-Control-Allow-Origin: * and a body
\* that parses as a JSON object; every error body has an 'error' field.
C12_CorsAndJsonBody ==
    Done =>
        /\ CorsHeader \in DOMAIN response.headers
        /\ response.headers[CorsHeader] = "*"
        /\ json_loads(response.body).ok
        /\ IsObj(json_loads(response.body).val)
        /\ Status # 200 => "error" \in DOMAIN json_loads(response.body).val.o

C12_Witness ==
    /\ Done /\ Status = 500 /\ exc = "JSONDecodeError"
    /\ response.headers[CorsHeader] = "*"
    /\ "error" \in DOMAIN RespDoc

\* C13: the status is 504 exactly when the main scan subprocess timed out;
\* every other failure gives 500, and a timeout of the version query never
\* gives 504.
C13_GatewayTimeoutIffScanTimeout ==
    Done =>
        /\ Status = 504 <=> ScanTimedOut
        /\ (Status # 200 /\ ~ScanTimedOut) => Status = 500
        /\ exc \notin {"none", "TimeoutExpired"} => Status = 500
        /\ VersionTimedOut => Status # 504

C13_Witness ==
    Done /\ ScanTimedOut /\ Status = 504

Findings == RespDoc.vulnerabilities.l

\* C14: in a success response no description is longer than 500 characters.
C14_DescriptionBounded ==
    Succeeded =>
        \A i \in 1..Len(Findings) : Len(Findings[i].o.description.c) <= 500

C14_Witness ==
    /\ Succeeded
    /\ \E i \in 1..Len(Findings) :
          /\ "Description" \in DOMAIN RawOf(result.stdout)[i].o
          /\ Len(RawOf(result.stdout)[i].o.Description.c) = 501
          /\ Len(Findings[i].o.description.c) = 500

SeverityOmitted == IsObj(body) /\ "severity" \notin DOMAIN body.o

\* the argument that follows --severity on the command line
SeverityArg ==
    cmd[(CHOOSE i \in 1..Len(cmd) : cmd[i] = Str("--severity")) + 1]

\* the labels of a comma-separated filter
FilterLabels(v) ==
    IF "parts" \in DOMAIN v
    THEN {v.parts[i] : i \in 1..Len(v.parts)} \ {","}
    ELSE {v.s}

\* C15 as stated: without a severity filter in the request the scanner is
\* invoked with CRITICAL, HIGH, MEDIUM, LOW and UNKNOWN.
C15_DefaultFilterIsEnumeration ==
    (ScanLaunched /\ SeverityOmitted) =>
        FilterLabels(SeverityArg) = {"CRITICAL", "HIGH", "MEDIUM", "LOW", "UNKNOWN"}

\* C15 amended: without a severity filter in the request the scanner is
\* invoked with the four labels CRITICAL, HIGH, MEDIUM, LOW (not UNKNOWN).
C15_DefaultFilterIsFourLabels ==
    (ScanLaunched /\ SeverityOmitted) =>
        FilterLabels(SeverityArg) = {"CRITICAL", "HIGH", "MEDIUM", "LOW"}

C15_Witness ==
    ScanLaunched /\ SeverityOmitted /\ pc = "scanned"

NonEmptyStr(v) == IsStr(v) /\ Truthy(v)

\* C16: the image handed to the scanner and the image reported in the
\* response are non-empty strings, and a request without 'image' is scanned
\* with the default reference.
C16_ImageNonEmpty ==
    /\ ScanLaunched => NonEmptyStr(cmd[Len(cmd)])
    /\ (ScanLaunched /\ "image" \notin DOMAIN body.o) =>
          cmd[Len(cmd)] = Str("nginx:latest")
    /\ (Done /\ "image" \in DOMAIN RespDoc) => NonEmptyStr(RespDoc.image)

\* the target each raw finding belongs to, target after target
RECURSIVE RawTargets(_)
RawTargets(targets) ==
    IF targets = << >> THEN << >>
    ELSE (IF "Vulnerabilities" \in DOMAIN Head(targets).o
          THEN [j \in 1..Len(Head(targets).o.Vulnerabilities.l) |-> Head(targets).o]
          ELSE << >>)
         \o RawTargets(Tail(targets))

TargetsOf(stdout) ==
    IF "Results" \in DOMAIN stdout.enc.o
    THEN RawTargets(stdout.enc.o.Results.l) ELSE << >>

CopiedKeys ==
    {<<"VulnerabilityID", "cve_id">>, <<"PkgName", "package">>,
     <<"InstalledVersion", "installed_version">>,
     <<"FixedVersion", "fixed_version">>, <<"Severity", "severity">>}

\* the normalized finding f is the image of the raw finding raw of target tg
ImageOf(f, raw, tg) ==
    /\ \A p \in CopiedKeys : p[1] \in DOMAIN raw => f[p[2]] = raw[p[1]]
    /\ "Severity" \notin DOMAIN raw => f.severity = Str("UNKNOWN")
    /\ "VulnerabilityID" \notin DOMAIN raw => f.cve_id = Str("N/A")
    /\ "Target" \in DOMAIN tg => f.layer = tg.Target

\* C17: the vulnerabilities list is the flattening of Results: as many
\* entries as raw findings, the i-th entry being the image of the i-th raw
\* finding in target order, then in the order within the target.
C17_FlatteningKeepsOrder ==
    Succeeded =>
        /\ Len(Findings) = Len(RawOf(result.stdout))
        /\ \A i \in 1..Len(Findings) :
              ImageOf(Findings[i].o, RawOf(result.stdout)[i].o,
                      TargetsOf(result.stdout)[i])

C17_Witness ==
    /\ Succeeded
    /\ Len(result.stdout.enc.o.Results.l) = 2
    /\ Len(Findings) = 2
    /\ TargetsOf(result.stdout)[1] # TargetsOf(result.stdout)[2]
    /\ Findings[1].o.severity = Str("LOW")
    /\ Findings[2].o.severity = Str("CRITICAL")

\* the raw findings whose Severity is the label
RawWithLabel(raw, label) ==
    {i \in 1..Len(raw) : "Severity" \in DOMAIN raw[i].o
                         /\ raw[i].o.Severity = Str(label)}

OutsideEnumeration(rawvuln) ==
    "Severity" \in DOMAIN rawvuln.o /\ rawvuln.o.Severity \notin Enumeration

\* C18: a finding whose severity is outside the enumeration stays in the
\* list with its label unchanged, counts in total, and counts in none of
\* critical, high, medium, low.
C18_UnrecognizedSeverityKept ==
    Succeeded =>
        LET raw == RawOf(result.stdout)
        IN  /\ Len(Findings) = Len(raw)
            /\ \A i \in 1..Len(raw) :
                  OutsideEnumeration(raw[i]) =>
                      Findings[i].o.severity = raw[i].o.Severity
            /\ RespDoc.summary.o.total.n = Len(raw)
            /\ RespDoc.summary.o.critical.n = Cardinality(RawWithLabel(raw, "CRITICAL"))
            /\ RespDoc.summary.o.high.n = Cardinality(RawWithLabel(raw, "HIGH"))
            /\ RespDoc.summary.o.medium.n = Cardinality(RawWithLabel(raw, "MEDIUM"))
            /\ RespDoc.summary.o.low.n = Cardinality(RawWithLabel(raw, "LOW"))

C18_Witness ==
    /\ Succeeded
    /\ Len(Findings) = 2
    /\ OutsideEnumeration(RawOf(result.stdout)[1])
    /\ Findings[1].o.severity = Str("NEGLIGIBLE")
    /\ RespDoc.summary.o.total.n = 2
    /\ BucketSum = 1

StableFields ==
    {<<"VulnerabilityID", "cve_id", Str("N/A")>>,
     <<"PkgName", "package", Str("Unknown")>>,
     <<"InstalledVersion", "installed_version", Str("Unknown")>>}

\* C19: cve_id, package and installed_version are each the scanner's value
\* or the sentinel, never null and never omitted, also when the scanner
\* emits the key with a null value.
C19_StableShape ==
    Succeeded =>
        \A i \in 1..Len(Findings) : \A p \in StableFields :
            LET f == Findings[i].o
                raw == RawOf(result.stdout)[i].o
            IN  /\ p[2] \in DOMAIN f
                /\ f[p[2]] # Null
                /\ \/ f[p[2]] = p[3]
                   \/ p[1] \in DOMAIN raw /\ f[p[2]] = raw[p[1]]

RawReferences(rawvuln) ==
    IF "References" \in DOMAIN rawvuln.o THEN rawvuln.o.References.l ELSE << >>

\* C20: references is the prefix of the raw References of length
\* min(3, length of the raw list), in the scanner's order.
C20_ReferencesPrefix ==
    Succeeded =>
        \A i \in 1..Len(Findings) :
            LET refs == Findings[i].o.references.l
                rr == RawReferences(RawOf(result.stdout)[i])
            IN  /\ Len(refs) = (IF Len(rr) < 3 THEN Len(rr) ELSE 3)
                /\ \A j \in 1..Len(refs) : refs[j] = rr[j]

C20_Witness ==
    /\ Succeeded
    /\ \E i \in 1..Len(Findings) :
          /\ Len(RawReferences(RawOf(result.stdout)[i])) = 4
          /\ Findings[i].o.references.l = <<Str("u1"), Str("u2"), Str("u3")>>

-----------------------------------------------------------------------------
(* C21..C30 *)

ScanStarts == Cardinality({i \in 1..Len(runs) : runs[i].what = "scan"})
VersionStarts == Cardinality({i \in 1..Len(runs) : runs[i].what = "version"})

\* the scan has failed and the failure is about to be answered
ScanFailedNow ==
    \/ pc \in {"except_timeout", "except_exception"}
    \/ pc = "scanned" /\ result.returncode # 0 /\ result.stdout = Str("")

\* C21: within one request the scan subprocess is started at most once; from
\* a scan failure, a timeout or a parse failure the very next step is the
\* error response, and no subprocess is started on the way.
C21_NoRetry ==
    [][/\ ScanStarts' <= 1
       /\ ScanFailedNow =>
             /\ pc' = "done"
             /\ runs' = runs
             /\ response'.statusCode \in {500, 504}]_vars

C21_Witness ==
    /\ Done
    /\ Status = 504
    /\ ScanStarts = 1
    /\ runs[1].kind = "timeout"

\* invocations i and j have their scan subprocesses running at the same time
ScanningTogether(i, j) ==
    i # j /\ inv[i].pc = "running" /\ inv[j].pc = "running"

OwnProcess ==
    \A i, j \in Invocations : ScanningTogether(i, j) => inv[i].pid # inv[j].pid

\* the entry of the CVSS map that extract_cvss_score selects: the first of
\* nvd, redhat, ghsa that is present
Selected(cvss) ==
    cvss[PriorityOrder[CHOOSE i \in ListedIn(cvss) : \A j \in ListedIn(cvss) : i <= j]]

\* C23: inside the selected source the V3 score is the result when it is
\* present, whatever the V2 score is; the V2 score is the result only when
\* the V3 score is absent.
C23_V3BeforeV2 ==
    (pc = "cvss_done" /\ ListedIn(CvssOf(arg)) # {}) =>
        LET entry == Selected(CvssOf(arg)).o
        IN  /\ "V3Score" \in DOMAIN entry => ret = Ok(entry.V3Score)
            /\ ("V3Score" \notin DOMAIN entry /\ "V2Score" \in DOMAIN entry)
                   => ret = Ok(entry.V2Score)

C23_Witness ==
    /\ pc = "cvss_done"
    /\ DOMAIN CvssOf(arg) = {"nvd"}
    /\ CvssOf(arg)["nvd"] = Obj([V3Score |-> Num(4), V2Score |-> Num(8)])
    /\ ret = Ok(Num(4))

\* the position is past the summary of a parsed and normalized output
PastSummary ==
    /\ pc \in {"versioned", "done"}
    /\ trivy_output # Unset
    /\ summary # Unset

\* C25: the subprocesses of one request run one after the other in pipeline
\* order: a version query is the second run, it follows a scan that has
\* completed, and it is made only after the output was parsed, normalized
\* and summarized; a 200 response has made exactly one version query and an
\* error response none.
C25_VersionQueryAfterSummary ==
    /\ \A i \in 1..Len(runs) :
          runs[i].what = "version" =>
              /\ i = 2
              /\ runs[1].what = "scan" /\ runs[1].kind = "completed"
              /\ PastSummary
    /\ Done => VersionStarts = (IF Status = 200 THEN 1 ELSE 0)

C25_Witness ==
    /\ Succeeded
    /\ Len(runs) = 2
    /\ runs[1].what = "scan"
    /\ runs[2].what = "version"

\* the scan exited with code 0 and wrote nothing to standard output
CleanEmptyScan ==
    /\ ScanCompleted
    /\ result.returncode = 0
    /\ result.stdout = Str("")

\* C26: a scan that exits 0 with empty standard output is answered with 200,
\* an empty vulnerabilities list and a summary of five zeros.
C26_EmptyOutputIsEmptyReport ==
    (Done /\ CleanEmptyScan) =>
        /\ Status = 200
        /\ RespDoc.vulnerabilities = List(<< >>)
        /\ RespDoc.summary =
               Obj([k \in {"total", "critical", "high", "medium", "low"} |-> Num(0)])

C26_Witness ==
    /\ Done
    /\ CleanEmptyScan
    /\ Status = 200

\* demo_mode is set in the session state
DemoSet == IsTrue(Get(session_state, "demo_mode", Bool(FALSE)))

\* the boto3 session kept in the session state, None without one
StoredSession == Get(session_state, "boto3_session", Null)

\* AWS accepts the credentials the module would use: those of the stored
\* session if there is one, else those the probe has just been answered for
ConnectionValid ==
    IF IsTrue(StoredSession) THEN StoredSession.valid
    ELSE aws # << >> /\ aws[Len(aws)] = Api("sts", "get_caller_identity", TRUE)

\* C24: is_live_mode returns True only with a valid AWS connection: never
\* while demo_mode is set, and never for credentials AWS would reject, a
\* stored session that is no longer valid included.
C24_LiveOnlyWithValidConnection ==
    (fn = "is_live_mode" /\ outcome = Ok(Bool(TRUE))) =>
        /\ ~DemoSet
        /\ ConnectionValid

\* the exact sum of a sequence of numbers
RECURSIVE ExactSum(_)
ExactSum(ns) == IF ns = << >> THEN 0 ELSE Head(ns) + ExactSum(Tail(ns))

\* sum(ns): the floats added up from the left
RECURSIVE FloatSum(_, _)
FloatSum(ns, acc) ==
    IF ns = << >> THEN acc ELSE FloatSum(Tail(ns), FAdd(acc, Head(ns)))

\* the values of a dict of numbers, in some order
RECURSIVE ValuesOf(_)
ValuesOf(d) ==
    IF DOMAIN d = {} THEN << >>
    ELSE LET k == CHOOSE x \in DOMAIN d : TRUE
         IN  <<d[k].n>> \o ValuesOf([x \in DOMAIN d \ {k} |-> d[x]])

\* fetch_real_cost_data has returned a dictionary
CostsReturned ==
    fn = "fetch_real_cost_data" /\ at = "returned" /\ IsObj(outcome.val)

Costs == outcome.val.o
DailyCosts == [i \in 1..Len(Costs.daily_costs.l) |-> Costs.daily_costs.l[i].o.cost.n]
ServiceCosts == ValuesOf(Costs.service_costs.o)

\* the elements of ResultsByTime in the response, and the amounts in it
RawDays == Get(local.response.o, "ResultsByTime", List(<< >>)).l

RECURSIVE AmountsOf(_)
AmountsOf(groups) ==
    IF groups = << >> THEN << >>
    ELSE <<Head(groups).o.Metrics.o.UnblendedCost.o.Amount.dec>>
         \o AmountsOf(Tail(groups))

RECURSIVE RawAmounts(_)
RawAmounts(ds) ==
    IF ds = << >> THEN << >>
    ELSE AmountsOf(Get(Head(ds).o, "Groups", List(<< >>)).l) \o RawAmounts(Tail(ds))

\* daily_costs has one entry per element of ResultsByTime, in the same order
OneEntryPerDay ==
    /\ Len(Costs.daily_costs.l) = Len(RawDays)
    /\ \A i \in 1..Len(RawDays) :
          Costs.daily_costs.l[i].o.date = RawDays[i].o.TimePeriod.o.Start

\* x is the sum of ns, taken exactly or as Python adds floats up
IsSumOf(x, ns) == x = ExactSum(ns) \/ x = FloatSum(ns, 0)

\* no addition over these amounts rounds: every partial sum is a float
NoRounding == ExactSum(RawAmounts(RawDays)) <= Pow2(MantissaBits)

OnlyProbed == \A i \in 1..Len(aws) : aws[i].service = "sts"

\* C28: while demo_mode is set, each of the seven fetch functions returns
\* None and neither creates a client nor calls an AWS API.
C28_DemoModeFetchesNothing ==
    (DemoSet /\ fn \in FetchFunctions /\ at = "returned") =>
        /\ outcome = Ok(Null)
        /\ aws = << >>

C28_Witness ==
    /\ DemoSet
    /\ StoredSession = Session(TRUE)
    /\ fn = "fetch_real_budgets"
    /\ at = "returned"
    /\ outcome = Ok(Null)

\* get_finops_summary has returned its dictionary
SummaryReturned == fn = "get_finops_summary" /\ at = "returned"

\* C29: a summary labelled 'DEMO' carries no data and cost no fetch: costs,
\* budgets, forecast and recommendations are None and no fetch function was
\* called, however the evaluations of is_live_mode were answered.
C29_DemoLabelMeansNoData ==
    (SummaryReturned /\ outcome.val.o.mode = Str("DEMO")) =>
        /\ \A k \in {"costs", "budgets", "forecast", "recommendations"} :
              outcome.val.o[k] = Null
        /\ local.fetched = 0
        /\ OnlyProbed

\* the part of C29 about the data alone
DemoLabelMeansNoneFields ==
    (SummaryReturned /\ outcome.val.o.mode = Str("DEMO")) =>
        \A k \in {"costs", "budgets", "forecast", "recommendations"} :
            outcome.val.o[k] = Null

\* C30: render_real_cost_dashboard ends without an exception whatever
\* fetch_real_cost_data returned, an empty service_costs with a total of 0
\* included.
C30_RenderNeverRaises ==
    fn = "render_real_cost_dashboard" => at # "raised"

\* the case C30 names: no groups at all
RenderSurvivesNoGroups ==
    (fn = "render_real_cost_dashboard" /\ at = "raised") =>
        DOMAIN local.costs.o.service_costs.o # {}

====
